---- MODULE Spec2Model ----
(***************************************************************************)
(* Admin write API of the blog backend: credential verifier, blog and     *)
(* playbook resource managers over two DynamoDB tables and one S3 bucket. *)
(* One action per route handler for requests handled one at a time; the   *)
(* handlers are split at their store calls where requests run together.   *)
(***************************************************************************)
EXTENDS Integers, Sequences, FiniteSets, TLC

VARIABLES env, blog, playbook, bucket, clock, resp, oplog, inflight

vars == <<env, blog, playbook, bucket, clock, resp, oplog, inflight>>

\* Number of now_iso() readings a behaviour may take.
MaxClock == 3

\* Optional[T]: None is the empty sequence, a present value v is <<v>>.
None == <<>>

Some(v) == <<v>>

----------------------------------------------------------------------------
(* DynamoDB table: a function from <<PK, SK>> to the item stored there.    *)

NoItem == [absent |-> TRUE]

EmptyTable == [k \in {} |-> NoItem]

\* get_item gone wrong: the key attributes are looked up the wrong way round.
get_item_swapped_key(table, pk, sk) ==
    IF <<sk, pk>> \in DOMAIN table THEN table[<<sk, pk>>] ELSE NoItem

get_item(table, pk, sk) ==
    IF <<pk, sk>> \in DOMAIN table THEN table[<<pk, sk>>] ELSE NoItem

put_item(table, item) ==
    [k \in DOMAIN table \cup {<<item.PK, item.SK>>} |->
        IF k = <<item.PK, item.SK>> THEN item ELSE table[k]]

delete_item(table, pk, sk) ==
    [k \in DOMAIN table \ {<<pk, sk>>} |-> table[k]]

SetAttr(item, a, v) ==
    [f \in DOMAIN item \cup {a} |-> IF f = a THEN v ELSE item[f]]

RECURSIVE ApplySet(_, _, _, _)
ApplySet(item, expr, names, values) ==
    IF expr = <<>> THEN item
    ELSE ApplySet(SetAttr(item, names[Head(expr)[1]], values[Head(expr)[2]]),
                  Tail(expr), names, values)

\* update_item with a SET expression: creates the item when the key is absent.
update_item(table, pk, sk, expr, names, values) ==
    LET base == IF <<pk, sk>> \in DOMAIN table THEN table[<<pk, sk>>]
                ELSE [PK |-> pk, SK |-> sk]
    IN  put_item(table, ApplySet(base, expr, names, values))

\* S3 DeleteObjects on the bucket (a set of object keys).
delete_objects(objects, keys) == objects \ {keys[i] : i \in 1..Len(keys)}

----------------------------------------------------------------------------
(* shared/db.py                                                            *)

NamePh(i) == <<"#k", i>>

ValPh(i) == <<":v", i>>

\* build_update_expression gone wrong: every field gets the placeholders of
\* index 0, so the last field takes them.
build_update_expression_shared_placeholder(data) ==
    [expr   |-> [i \in 1..Len(data) |-> <<NamePh(0), ValPh(0)>>],
     names  |-> [ph \in {NamePh(0)} |-> data[Len(data)][1]],
     values |-> [ph \in {ValPh(0)} |-> data[Len(data)][2]]]

\* data is the dict as a sequence of <<key, value>> pairs in insertion order.
build_update_expression(data) ==
    [expr   |-> [i \in 1..Len(data) |-> <<NamePh(i - 1), ValPh(i - 1)>>],
     names  |-> [ph \in {NamePh(i - 1) : i \in 1..Len(data)} |-> data[ph[2] + 1][1]],
     values |-> [ph \in {ValPh(i - 1) : i \in 1..Len(data)} |-> data[ph[2] + 1][2]]]

----------------------------------------------------------------------------
(* shared/config.py: the names the module binds, read from the process     *)
(* environment env (a function from the variables that are set to their   *)
(* values).                                                                *)

getenv(name, default) == IF name \in DOMAIN env THEN env[name] ELSE default

config ==
    [ENV             |-> getenv("ENV", "production"),
     AWS_REGION      |-> getenv("AWS_REGION", "us-west-2"),
     BLOG_TABLE      |-> getenv("DYNAMODB_BLOG_TABLE", "blog"),
     PLAYBOOK_TABLE  |-> getenv("DYNAMODB_PLAYBOOK_TABLE", "playbook"),
     S3_BUCKET       |-> getenv("S3_BUCKET", "botthef-content-bucket"),
     ADMIN_EMAIL     |-> getenv("ADMIN_EMAIL", ""),
     NEXTAUTH_SECRET |-> getenv("NEXTAUTH_SECRET", "")]

\* `from shared.config import <name>`: <<value>> when config.py binds the
\* name, None when it does not (the import cannot be satisfied).
ImportFromConfig(name) ==
    IF name \in DOMAIN config THEN Some(config[name]) ELSE None

ADMIN_EMAIL == ImportFromConfig("ADMIN_EMAIL")

NEXTAUTH_SECRET == ImportFromConfig("NEXTAUTH_SECRET")

MCP_API_KEY == ImportFromConfig("MCP_API_KEY")

----------------------------------------------------------------------------
(* shared/auth.py                                                          *)

\* str.lower() on the letters the model's strings are built from.
LowerChar(c) ==
    CASE c = "A" -> "a"
      [] c = "B" -> "b"
      [] OTHER   -> c

RECURSIVE lower(_)
lower(s) ==
    IF Len(s) = 0 THEN ""
    ELSE LowerChar(SubSeq(s, 1, 1)) \o lower(SubSeq(s, 2, Len(s)))

startswith(s, prefix) ==
    Len(s) >= Len(prefix) /\ SubSeq(s, 1, Len(prefix)) = prefix

\* Outcome of the dependency: status 200 carries the identity, any other
\* status is the HTTPException raised (challenge: WWW-Authenticate: Bearer).
AuthOk(identity) ==
    [status |-> 200, detail |-> "", identity |-> identity, challenge |-> FALSE]

AuthFail(status, detail, challenge) ==
    [status |-> status, detail |-> detail, identity |-> "", challenge |-> challenge]

\* A credential is the Authorization header: its scheme, the token string,
\* and jwt, the JOSE content the token string encodes (None when the string
\* is not a compact JWS): [alg, key, expired, email], email an Optional.
Jwt(alg, key, expired, email) ==
    [scheme |-> "Bearer", token |-> "eyJ",
     jwt |-> Some([alg |-> alg, key |-> key, expired |-> expired, email |-> email])]

Bearer(token) == [scheme |-> "Bearer", token |-> token, jwt |-> None]

NoCredential == [scheme |-> "", token |-> "", jwt |-> None]

\* jwt.decode(token, secret, algorithms): header and algorithm, then the
\* signature, then the exp claim.
jwt_decode(cred, secret, algorithms) ==
    IF cred.jwt = None THEN [error |-> "JWTError"]
    ELSE LET j == cred.jwt[1] IN
         IF j.alg \notin algorithms THEN [error |-> "JWTError"]
         ELSE IF j.key # secret THEN [error |-> "JWTError"]
         ELSE IF j.expired THEN [error |-> "ExpiredSignatureError"]
         ELSE [error |-> "", email |-> j.email]

\* HTTPBearer(): no Authorization header, or another scheme, is answered
\* before the dependency body runs.
HTTPBearer(cred) == cred.scheme = "Bearer"

\* email_rejected gone wrong: the comparison keeps the case.
email_rejected_case_sensitive(email) ==
    email = None \/ email[1] = "" \/ email[1] # ADMIN_EMAIL[1]

\* email_rejected gone wrong: an empty email claim is compared like any other.
email_rejected_empty_compared(email) ==
    email = None \/ lower(email[1]) # lower(ADMIN_EMAIL[1])

\* not email or email.lower() != ADMIN_EMAIL.lower()
email_rejected(email) ==
    email = None \/ email[1] = "" \/ lower(email[1]) # lower(ADMIN_EMAIL[1])

verify_admin_token(cred) ==
    IF ~HTTPBearer(cred)
    THEN AuthFail(401, "Not authenticated", TRUE)
    ELSE LET token == cred.token IN
    IF startswith(token, "btf_")
    THEN IF MCP_API_KEY = None
         THEN AuthFail(500, "Internal Server Error", FALSE)
         ELSE IF MCP_API_KEY[1] = ""
         THEN AuthFail(500, "MCP_API_KEY not configured", FALSE)
         ELSE IF token = MCP_API_KEY[1]
         THEN AuthOk("mcp-server")
         ELSE AuthFail(401, "Invalid API key", TRUE)
    ELSE IF NEXTAUTH_SECRET[1] = ""
    THEN AuthFail(500, "NEXTAUTH_SECRET not configured", FALSE)
    ELSE LET payload == jwt_decode(cred, NEXTAUTH_SECRET[1], {"HS256"}) IN
    IF payload.error = "ExpiredSignatureError"
    THEN AuthFail(401, "Token expired", TRUE)
    ELSE IF payload.error = "JWTError"
    THEN AuthFail(401, "Invalid token", TRUE)
    ELSE LET email == payload.email IN
    IF email_rejected(email)
    THEN AuthFail(403, "Not authorized", FALSE)
    ELSE AuthOk(email[1])

\* The dependency evaluated on a credential, whatever the route behind it.
authenticate(cred) ==
    LET auth == verify_admin_token(cred)
    IN  /\ resp' = [route |-> "verify_admin_token", slug |-> "", cred |-> cred,
                    payload |-> None, status |-> auth.status, detail |-> auth.detail,
                    identity |-> auth.identity, challenge |-> auth.challenge,
                    body |-> None]
        /\ oplog' = <<>>
        /\ UNCHANGED <<inflight, env, blog, playbook, bucket, clock>>

----------------------------------------------------------------------------
(* shared/models.py, shared/s3.py and what every route shares              *)

\* Media.model_dump(): the plain dict stored in a media list.
model_dump_media(m) == [key |-> m.key, s3Key |-> m.s3Key, type |-> m.type]

dump_media_list(ms) == [i \in 1..Len(ms) |-> model_dump_media(ms[i])]

\* model_dump(exclude_none=True) restricted to fields, in declaration order:
\* the dict as a sequence of <<field, value>> pairs.
RECURSIVE model_dump_exclude_none(_, _)
model_dump_exclude_none(body, fields) ==
    IF fields = <<>> THEN <<>>
    ELSE LET f    == Head(fields)
             rest == model_dump_exclude_none(body, Tail(fields))
         IN  IF body[f] = None THEN rest ELSE << <<f, body[f][1]>> >> \o rest

\* data["media"] = [m.model_dump() for m in update.media]
RECURSIVE serialize_media(_)
serialize_media(data) ==
    IF data = <<>> THEN <<>>
    ELSE LET d == Head(data) IN
         << IF d[1] = "media" THEN <<"media", dump_media_list(d[2])>> ELSE d >>
         \o serialize_media(Tail(data))

\* delete_s3_objects gone wrong: the call to the bucket is never made.
delete_s3_objects_skipped(objects, s3_keys) == objects

\* delete_s3_objects: no call to the bucket when the list is empty.
delete_s3_objects(objects, s3_keys) ==
    IF s3_keys = <<>> THEN objects ELSE delete_objects(objects, s3_keys)

delete_s3_objects_log(s3_keys) ==
    IF s3_keys = <<>> THEN <<>> ELSE << <<"delete_objects", "s3", s3_keys, "">> >>

\* [m["s3Key"] for m in item.get("media", []) if "s3Key" in m] over items.
RECURSIVE media_s3_keys(_)
media_s3_keys(media) ==
    IF media = <<>> THEN <<>>
    ELSE (IF "s3Key" \in DOMAIN Head(media) THEN <<Head(media).s3Key>> ELSE <<>>)
         \o media_s3_keys(Tail(media))

item_media(item) == IF "media" \in DOMAIN item THEN item.media ELSE <<>>

RECURSIVE _collect_s3_keys(_)
_collect_s3_keys(items) ==
    IF items = <<>> THEN <<>>
    ELSE media_s3_keys(item_media(Head(items))) \o _collect_s3_keys(Tail(items))

\* now_iso(): the clock reading; every reading is later than the one before.
now_iso == clock

Op(op, table, pk, sk) == <<op, table, pk, sk>>

\* The response, with the request it answers: its credential and, once the
\* route body runs, its payload.
Answer(route, slug, cred, payload, auth, status, detail) ==
    resp' = [route |-> route, slug |-> slug, cred |-> cred, payload |-> payload,
             status |-> status, detail |-> detail, identity |-> auth.identity,
             challenge |-> auth.challenge, body |-> None]

\* Rejected gone wrong: the route looks its document up before the
\* dependency's exception ends the request.
Rejected_after_lookup(route, slug, cred, auth) ==
    /\ Answer(route, slug, cred, None, auth, auth.status, auth.detail)
    /\ oplog' = << Op("get_item", "blog", slug, "METADATA") >>
    /\ UNCHANGED <<inflight, env, blog, playbook, bucket, clock>>

\* The dependency raised: the route body does not run.
Rejected(route, slug, cred, auth) ==
    /\ Answer(route, slug, cred, None, auth, auth.status, auth.detail)
    /\ oplog' = <<>>
    /\ UNCHANGED <<inflight, env, blog, playbook, bucket, clock>>

----------------------------------------------------------------------------
(* admin/routes/blog.py                                                    *)

blog_pk(slug) == "BLOG#" \o slug

PostUpdateFields == <<"title", "date", "excerpt", "tags", "content", "media">>

create_post(cred, post) ==
    LET auth     == verify_admin_token(cred)
        pk       == blog_pk(post.slug)
        existing == get_item(blog, pk, "METADATA")
        ts       == now_iso
    IN  IF auth.status # 200 THEN Rejected("create_post", post.slug, cred, auth)
        ELSE IF existing # NoItem
        THEN /\ Answer("create_post", post.slug, cred, post, auth, 409,
                        "Post with slug '" \o post.slug \o "' already exists")
             /\ oplog' = << Op("get_item", "blog", pk, "METADATA") >>
             /\ UNCHANGED <<inflight, env, blog, playbook, bucket, clock>>
        ELSE /\ clock < MaxClock
             /\ clock' = clock + 1
             /\ blog' = put_item(blog,
                    [PK |-> pk, SK |-> "METADATA", title |-> post.title,
                     date |-> post.date, excerpt |-> post.excerpt,
                     tags |-> post.tags, content |-> post.content,
                     media |-> dump_media_list(post.media),
                     createdAt |-> ts, updatedAt |-> ts])
             /\ oplog' = << Op("get_item", "blog", pk, "METADATA"),
                            Op("put_item", "blog", pk, "METADATA") >>
             /\ Answer("create_post", post.slug, cred, post, auth, 201, "Post created")
             /\ UNCHANGED <<inflight, env, playbook, bucket>>

\* update_post gone wrong: the body is tested for emptiness before the post is
\* looked up.
update_post_empty_test_first(cred, slug, update) ==
    LET auth == verify_admin_token(cred)
        pk   == blog_pk(slug)
        item == get_item(blog, pk, "METADATA")
        data == model_dump_exclude_none(update, PostUpdateFields)
        ts   == now_iso
        ue   == build_update_expression(serialize_media(data) \o << <<"updatedAt", ts>> >>)
    IN  IF auth.status # 200 THEN Rejected("update_post", slug, cred, auth)
        ELSE IF data = <<>>
        THEN /\ Answer("update_post", slug, cred, update, auth, 400, "No fields to update")
             /\ oplog' = <<>>
             /\ UNCHANGED <<inflight, env, blog, playbook, bucket, clock>>
        ELSE IF item = NoItem
        THEN /\ Answer("update_post", slug, cred, update, auth, 404, "Post not found")
             /\ oplog' = << Op("get_item", "blog", pk, "METADATA") >>
             /\ UNCHANGED <<inflight, env, blog, playbook, bucket, clock>>
        ELSE /\ clock < MaxClock
             /\ clock' = clock + 1
             /\ blog' = update_item(blog, pk, "METADATA", ue.expr, ue.names, ue.values)
             /\ oplog' = << Op("get_item", "blog", pk, "METADATA"),
                            Op("update_item", "blog", pk, "METADATA") >>
             /\ Answer("update_post", slug, cred, update, auth, 200, "Post updated")
             /\ UNCHANGED <<inflight, env, playbook, bucket>>

\* update_post gone wrong: updatedAt is stamped before the test for an empty
\* body, so the test never succeeds.
update_post_stamped_first(cred, slug, update) ==
    LET auth == verify_admin_token(cred)
        pk   == blog_pk(slug)
        item == get_item(blog, pk, "METADATA")
        ts   == now_iso
        data == model_dump_exclude_none(update, PostUpdateFields)
                    \o << <<"updatedAt", ts>> >>
        ue   == build_update_expression(serialize_media(data))
    IN  IF auth.status # 200 THEN Rejected("update_post", slug, cred, auth)
        ELSE IF item = NoItem
        THEN /\ Answer("update_post", slug, cred, update, auth, 404, "Post not found")
             /\ oplog' = << Op("get_item", "blog", pk, "METADATA") >>
             /\ UNCHANGED <<inflight, env, blog, playbook, bucket, clock>>
        ELSE IF data = <<>>
        THEN /\ Answer("update_post", slug, cred, update, auth, 400, "No fields to update")
             /\ oplog' = << Op("get_item", "blog", pk, "METADATA") >>
             /\ UNCHANGED <<inflight, env, blog, playbook, bucket, clock>>
        ELSE /\ clock < MaxClock
             /\ clock' = clock + 1
             /\ blog' = update_item(blog, pk, "METADATA", ue.expr, ue.names, ue.values)
             /\ oplog' = << Op("get_item", "blog", pk, "METADATA"),
                            Op("update_item", "blog", pk, "METADATA") >>
             /\ Answer("update_post", slug, cred, update, auth, 200, "Post updated")
             /\ UNCHANGED <<inflight, env, playbook, bucket>>

update_post(cred, slug, update) ==
    LET auth == verify_admin_token(cred)
        pk   == blog_pk(slug)
        item == get_item(blog, pk, "METADATA")
        data == model_dump_exclude_none(update, PostUpdateFields)
        ts   == now_iso
        ue   == build_update_expression(serialize_media(data) \o << <<"updatedAt", ts>> >>)
    IN  IF auth.status # 200 THEN Rejected("update_post", slug, cred, auth)
        ELSE IF item = NoItem
        THEN /\ Answer("update_post", slug, cred, update, auth, 404, "Post not found")
             /\ oplog' = << Op("get_item", "blog", pk, "METADATA") >>
             /\ UNCHANGED <<inflight, env, blog, playbook, bucket, clock>>
        ELSE IF data = <<>>
        THEN /\ Answer("update_post", slug, cred, update, auth, 400, "No fields to update")
             /\ oplog' = << Op("get_item", "blog", pk, "METADATA") >>
             /\ UNCHANGED <<inflight, env, blog, playbook, bucket, clock>>
        ELSE /\ clock < MaxClock
             /\ clock' = clock + 1
             /\ blog' = update_item(blog, pk, "METADATA", ue.expr, ue.names, ue.values)
             /\ oplog' = << Op("get_item", "blog", pk, "METADATA"),
                            Op("update_item", "blog", pk, "METADATA") >>
             /\ Answer("update_post", slug, cred, update, auth, 200, "Post updated")
             /\ UNCHANGED <<inflight, env, playbook, bucket>>

delete_post(cred, slug) ==
    LET auth    == verify_admin_token(cred)
        pk      == blog_pk(slug)
        item    == get_item(blog, pk, "METADATA")
        s3_keys == media_s3_keys(item_media(item))
    IN  IF auth.status # 200 THEN Rejected("delete_post", slug, cred, auth)
        ELSE IF item = NoItem
        THEN /\ Answer("delete_post", slug, cred, None, auth, 404, "Post not found")
             /\ oplog' = << Op("get_item", "blog", pk, "METADATA") >>
             /\ UNCHANGED <<inflight, env, blog, playbook, bucket, clock>>
        ELSE /\ bucket' = delete_s3_objects(bucket, s3_keys)
             /\ blog' = delete_item(blog, pk, "METADATA")
             /\ oplog' = << Op("get_item", "blog", pk, "METADATA") >>
                         \o delete_s3_objects_log(s3_keys)
                         \o << Op("delete_item", "blog", pk, "METADATA") >>
             /\ Answer("delete_post", slug, cred, None, auth, 200, "Post deleted")
             /\ UNCHANGED <<inflight, env, playbook, clock>>

\* What a call of the bucket's DeleteObjects may come to: every key removed;
\* the call returns with per-key Errors in its response and the objects stay;
\* or the client raises (ClientError, no connection) and the objects stay.
S3Outcomes == {"deleted", "errors", "raises"}

\* delete_post with the outcome of the bulk delete it may issue. The response
\* of delete_objects is not read, and an exception of the client is not
\* caught: it ends the request with the framework's 500 before delete_item.
delete_post_when(cred, slug, outcome) ==
    LET auth    == verify_admin_token(cred)
        pk      == blog_pk(slug)
        item    == get_item(blog, pk, "METADATA")
        s3_keys == media_s3_keys(item_media(item))
        called  == s3_keys # <<>>
    IN  IF auth.status # 200 THEN Rejected("delete_post", slug, cred, auth)
        ELSE IF item = NoItem
        THEN /\ Answer("delete_post", slug, cred, None, auth, 404, "Post not found")
             /\ oplog' = << Op("get_item", "blog", pk, "METADATA") >>
             /\ UNCHANGED <<inflight, env, blog, playbook, bucket, clock>>
        ELSE IF called /\ outcome = "raises"
        THEN /\ Answer("delete_post", slug, cred, None, auth, 500, "Internal Server Error")
             /\ oplog' = << Op("get_item", "blog", pk, "METADATA") >>
                         \o delete_s3_objects_log(s3_keys)
             /\ UNCHANGED <<inflight, env, blog, playbook, bucket, clock>>
        ELSE /\ bucket' = IF outcome = "deleted"
                          THEN delete_s3_objects(bucket, s3_keys) ELSE bucket
             /\ blog' = delete_item(blog, pk, "METADATA")
             /\ oplog' = << Op("get_item", "blog", pk, "METADATA") >>
                         \o delete_s3_objects_log(s3_keys)
                         \o << Op("delete_item", "blog", pk, "METADATA") >>
             /\ Answer("delete_post", slug, cred, None, auth, 200, "Post deleted")
             /\ UNCHANGED <<inflight, env, playbook, clock>>

----------------------------------------------------------------------------
(* admin/routes/playbook.py                                                *)

playbook_pk(slug) == "PLAYBOOK#" \o slug

_problem_sk(problem_id) == "PROBLEM#" \o problem_id

ModuleUpdateFields == <<"title", "description", "content", "order", "media">>

\* The problem ids requests may name, in sort-key order.
ProblemIdSeq == <<"p1", "p2">>

_problem_item(slug, problem, ts) ==
    LET item0 == [PK |-> playbook_pk(slug), SK |-> _problem_sk(problem.id),
                  collection |-> "PLAYBOOK", title |-> problem.title,
                  leetcodeUrl |-> problem.leetcodeUrl,
                  difficulty |-> problem.difficulty, status |-> problem.status,
                  pseudocode |-> problem.pseudocode,
                  media |-> dump_media_list(problem.media),
                  createdAt |-> ts, updatedAt |-> ts]
        item1 == IF problem.tags # None
                 THEN SetAttr(item0, "tags", problem.tags[1]) ELSE item0
        item2 == IF problem.lastSolved # None
                 THEN SetAttr(item1, "lastSolved", problem.lastSolved[1]) ELSE item1
    IN  IF problem.nextReview # None
        THEN SetAttr(item2, "nextReview", problem.nextReview[1]) ELSE item2

\* table.query(PK = pk): the items of the partition in sort-key order.
SortKeySeq == <<"METADATA">> \o [i \in 1..Len(ProblemIdSeq) |-> _problem_sk(ProblemIdSeq[i])]

RECURSIVE query_from(_, _, _)
query_from(table, pk, sks) ==
    IF sks = <<>> THEN <<>>
    ELSE (IF <<pk, Head(sks)>> \in DOMAIN table THEN <<table[<<pk, Head(sks)>>]>> ELSE <<>>)
         \o query_from(table, pk, Tail(sks))

\* _all_module_items gone wrong: only the METADATA item is read.
_all_module_items_metadata_only(table, slug) ==
    query_from(table, playbook_pk(slug), <<"METADATA">>)

_all_module_items(table, slug) == query_from(table, playbook_pk(slug), SortKeySeq)

\* batch_writer: the buffered requests reach the table, in order, when the
\* with block is left.
RECURSIVE batch_put(_, _)
batch_put(table, items) ==
    IF items = <<>> THEN table
    ELSE batch_put(put_item(table, Head(items)), Tail(items))

\* batch_delete gone wrong: the buffered deletes never reach the table.
batch_delete_unflushed(table, items) == table

RECURSIVE batch_delete(_, _)
batch_delete(table, items) ==
    IF items = <<>> THEN table
    ELSE batch_delete(delete_item(table, Head(items).PK, Head(items).SK), Tail(items))

ItemOps(op, items) == [i \in 1..Len(items) |-> Op(op, "playbook", items[i].PK, items[i].SK)]

\* create_module gone wrong: any item of the partition makes the slug conflict.
create_module_any_item_conflicts(cred, module) ==
    LET auth     == verify_admin_token(cred)
        pk       == playbook_pk(module.slug)
        found    == _all_module_items(playbook, module.slug)
        existing == IF found = <<>> THEN NoItem ELSE Head(found)
        ts       == now_iso
        items    == << [PK |-> pk, SK |-> "METADATA", collection |-> "PLAYBOOK",
                        title |-> module.title, description |-> module.description,
                        content |-> module.content, order |-> module.order,
                        media |-> dump_media_list(module.media),
                        createdAt |-> ts, updatedAt |-> ts] >>
                    \o [i \in 1..Len(module.problems) |->
                            _problem_item(module.slug, module.problems[i], ts)]
    IN  IF auth.status # 200 THEN Rejected("create_module", module.slug, cred, auth)
        ELSE IF existing # NoItem
        THEN /\ Answer("create_module", module.slug, cred, module, auth, 409,
                        "Module with slug '" \o module.slug \o "' already exists")
             /\ oplog' = << Op("get_item", "playbook", pk, "METADATA") >>
             /\ UNCHANGED <<inflight, env, blog, playbook, bucket, clock>>
        ELSE /\ clock < MaxClock
             /\ clock' = clock + 1
             /\ playbook' = batch_put(playbook, items)
             /\ oplog' = << Op("get_item", "playbook", pk, "METADATA") >>
                         \o ItemOps("put_item", items)
             /\ Answer("create_module", module.slug, cred, module, auth, 201, "Module created")
             /\ UNCHANGED <<inflight, env, blog, bucket>>

create_module(cred, module) ==
    LET auth     == verify_admin_token(cred)
        pk       == playbook_pk(module.slug)
        existing == get_item(playbook, pk, "METADATA")
        ts       == now_iso
        items    == << [PK |-> pk, SK |-> "METADATA", collection |-> "PLAYBOOK",
                        title |-> module.title, description |-> module.description,
                        content |-> module.content, order |-> module.order,
                        media |-> dump_media_list(module.media),
                        createdAt |-> ts, updatedAt |-> ts] >>
                    \o [i \in 1..Len(module.problems) |->
                            _problem_item(module.slug, module.problems[i], ts)]
    IN  IF auth.status # 200 THEN Rejected("create_module", module.slug, cred, auth)
        ELSE IF existing # NoItem
        THEN /\ Answer("create_module", module.slug, cred, module, auth, 409,
                        "Module with slug '" \o module.slug \o "' already exists")
             /\ oplog' = << Op("get_item", "playbook", pk, "METADATA") >>
             /\ UNCHANGED <<inflight, env, blog, playbook, bucket, clock>>
        ELSE /\ clock < MaxClock
             /\ clock' = clock + 1
             /\ playbook' = batch_put(playbook, items)
             /\ oplog' = << Op("get_item", "playbook", pk, "METADATA") >>
                         \o ItemOps("put_item", items)
             /\ Answer("create_module", module.slug, cred, module, auth, 201, "Module created")
             /\ UNCHANGED <<inflight, env, blog, bucket>>

\* upsert_items gone wrong: createdAt is stamped anew on every upsert.
upsert_items_restamped(table, slug, problems, ts) ==
    [i \in 1..Len(problems) |-> _problem_item(slug, problems[i], ts)]

\* upsert_items gone wrong: the new attributes are merged into the stored item
\* and the attributes the payload leaves out stay.
upsert_items_merged(table, slug, problems, ts) ==
    [i \in 1..Len(problems) |->
        LET existing   == get_item(table, playbook_pk(slug), _problem_sk(problems[i].id))
            created_at == IF existing # NoItem THEN existing.createdAt ELSE ts
            item       == SetAttr(_problem_item(slug, problems[i], created_at),
                                  "updatedAt", ts)
        IN  IF existing = NoItem THEN item
            ELSE [f \in DOMAIN existing \cup DOMAIN item |->
                     IF f \in DOMAIN item THEN item[f] ELSE existing[f]]]

\* Step 2 of update_module: the items the batch holds; every lookup reads the
\* table as it is before the batch is flushed.
upsert_items(table, slug, problems, ts) ==
    [i \in 1..Len(problems) |->
        LET existing   == get_item(table, playbook_pk(slug), _problem_sk(problems[i].id))
            created_at == IF existing # NoItem THEN existing.createdAt ELSE ts
        IN  SetAttr(_problem_item(slug, problems[i], created_at), "updatedAt", ts)]

\* delete_problems gone wrong: the delete is issued without the test that the
\* problem exists.
RECURSIVE delete_problems_unchecked(_, _, _)
delete_problems_unchecked(st, slug, ids) ==
    IF ids = <<>> THEN st
    ELSE LET pk       == playbook_pk(slug)
             sk       == _problem_sk(Head(ids))
             existing == get_item(st.table, pk, sk)
             s3_keys  == IF existing # NoItem THEN _collect_s3_keys(<<existing>>)
                         ELSE <<>>
             lookup   == << Op("get_item", "playbook", pk, sk) >>
         IN  delete_problems_unchecked(
                 [table   |-> delete_item(st.table, pk, sk),
                  objects |-> delete_s3_objects(st.objects, s3_keys),
                  log     |-> st.log \o lookup \o delete_s3_objects_log(s3_keys)
                              \o << Op("delete_item", "playbook", pk, sk) >>],
                 slug, Tail(ids))

\* delete_problems gone wrong: the loop ends after the first id.
delete_problems_first_only(st, slug, ids) ==
    IF ids = <<>> THEN st
    ELSE LET pk       == playbook_pk(slug)
             sk       == _problem_sk(Head(ids))
             existing == get_item(st.table, pk, sk)
             s3_keys  == _collect_s3_keys(<<existing>>)
             lookup   == << Op("get_item", "playbook", pk, sk) >>
         IN  IF existing # NoItem
             THEN [table   |-> delete_item(st.table, pk, sk),
                   objects |-> delete_s3_objects(st.objects, s3_keys),
                   log     |-> st.log \o lookup \o delete_s3_objects_log(s3_keys)
                               \o << Op("delete_item", "playbook", pk, sk) >>]
             ELSE [st EXCEPT !.log = st.log \o lookup]

\* Step 3 of update_module over the remaining ids; st = [table, objects, log].
RECURSIVE delete_problems(_, _, _)
delete_problems(st, slug, ids) ==
    IF ids = <<>> THEN st
    ELSE LET pk       == playbook_pk(slug)
             sk       == _problem_sk(Head(ids))
             existing == get_item(st.table, pk, sk)
             s3_keys  == _collect_s3_keys(<<existing>>)
             lookup   == << Op("get_item", "playbook", pk, sk) >>
         IN  IF existing # NoItem
             THEN delete_problems(
                      [table   |-> delete_item(st.table, pk, sk),
                       objects |-> delete_s3_objects(st.objects, s3_keys),
                       log     |-> st.log \o lookup \o delete_s3_objects_log(s3_keys)
                                   \o << Op("delete_item", "playbook", pk, sk) >>],
                      slug, Tail(ids))
             ELSE delete_problems([st EXCEPT !.log = st.log \o lookup], slug, Tail(ids))

\* update_module gone wrong: step 1 runs, and stamps updatedAt, also when the
\* body names no module-level field.
update_module_always_stamps(cred, slug, update) ==
    LET auth   == verify_admin_token(cred)
        pk     == playbook_pk(slug)
        module == get_item(playbook, pk, "METADATA")
        ts     == now_iso
        module_fields == model_dump_exclude_none(update, ModuleUpdateFields)
        ue     == build_update_expression(
                      serialize_media(module_fields) \o << <<"updatedAt", ts>> >>)
        t1     == update_item(playbook, pk, "METADATA", ue.expr, ue.names, ue.values)
        log1   == << Op("update_item", "playbook", pk, "METADATA") >>
        upserts == IF update.upsert_problems = None THEN <<>>
                   ELSE update.upsert_problems[1]
        items  == upsert_items(t1, slug, upserts, ts)
        t2     == batch_put(t1, items)
        log2   == ItemOps("get_item", items) \o ItemOps("put_item", items)
        ids    == IF update.delete_problem_ids = None THEN <<>>
                  ELSE update.delete_problem_ids[1]
        st     == delete_problems([table |-> t2, objects |-> bucket, log |-> <<>>],
                                  slug, ids)
    IN  IF auth.status # 200 THEN Rejected("update_module", slug, cred, auth)
        ELSE IF module = NoItem
        THEN /\ Answer("update_module", slug, cred, update, auth, 404, "Module not found")
             /\ oplog' = << Op("get_item", "playbook", pk, "METADATA") >>
             /\ UNCHANGED <<inflight, env, blog, playbook, bucket, clock>>
        ELSE /\ clock < MaxClock
             /\ clock' = clock + 1
             /\ playbook' = st.table
             /\ bucket' = st.objects
             /\ oplog' = << Op("get_item", "playbook", pk, "METADATA") >>
                         \o log1 \o log2 \o st.log
             /\ Answer("update_module", slug, cred, update, auth, 200, "Module updated")
             /\ UNCHANGED <<inflight, env, blog>>

\* update_module gone wrong: the deletes of step 3 run before the upserts of
\* step 2.
update_module_deletes_first(cred, slug, update) ==
    LET auth   == verify_admin_token(cred)
        pk     == playbook_pk(slug)
        module == get_item(playbook, pk, "METADATA")
        ts     == now_iso
        module_fields == model_dump_exclude_none(update, ModuleUpdateFields)
        ue     == build_update_expression(
                      serialize_media(module_fields) \o << <<"updatedAt", ts>> >>)
        t1     == IF module_fields # <<>>
                  THEN update_item(playbook, pk, "METADATA", ue.expr, ue.names, ue.values)
                  ELSE playbook
        log1   == IF module_fields # <<>>
                  THEN << Op("update_item", "playbook", pk, "METADATA") >> ELSE <<>>
        upserts == IF update.upsert_problems = None THEN <<>>
                   ELSE update.upsert_problems[1]
        ids    == IF update.delete_problem_ids = None THEN <<>>
                  ELSE update.delete_problem_ids[1]
        st     == delete_problems([table |-> t1, objects |-> bucket, log |-> <<>>],
                                  slug, ids)
        items  == upsert_items(st.table, slug, upserts, ts)
        t2     == batch_put(st.table, items)
        log2   == ItemOps("get_item", items) \o ItemOps("put_item", items)
    IN  IF auth.status # 200 THEN Rejected("update_module", slug, cred, auth)
        ELSE IF module = NoItem
        THEN /\ Answer("update_module", slug, cred, update, auth, 404, "Module not found")
             /\ oplog' = << Op("get_item", "playbook", pk, "METADATA") >>
             /\ UNCHANGED <<inflight, env, blog, playbook, bucket, clock>>
        ELSE /\ clock < MaxClock
             /\ clock' = clock + 1
             /\ playbook' = t2
             /\ bucket' = st.objects
             /\ oplog' = << Op("get_item", "playbook", pk, "METADATA") >>
                         \o log1 \o st.log \o log2
             /\ Answer("update_module", slug, cred, update, auth, 200, "Module updated")
             /\ UNCHANGED <<inflight, env, blog>>

update_module(cred, slug, update) ==
    LET auth   == verify_admin_token(cred)
        pk     == playbook_pk(slug)
        module == get_item(playbook, pk, "METADATA")
        ts     == now_iso
        module_fields == model_dump_exclude_none(update, ModuleUpdateFields)
        ue     == build_update_expression(
                      serialize_media(module_fields) \o << <<"updatedAt", ts>> >>)
        t1     == IF module_fields # <<>>
                  THEN update_item(playbook, pk, "METADATA", ue.expr, ue.names, ue.values)
                  ELSE playbook
        log1   == IF module_fields # <<>>
                  THEN << Op("update_item", "playbook", pk, "METADATA") >> ELSE <<>>
        upserts == IF update.upsert_problems = None THEN <<>>
                   ELSE update.upsert_problems[1]
        items  == upsert_items(t1, slug, upserts, ts)
        t2     == batch_put(t1, items)
        log2   == ItemOps("get_item", items) \o ItemOps("put_item", items)
        ids    == IF update.delete_problem_ids = None THEN <<>>
                  ELSE update.delete_problem_ids[1]
        st     == delete_problems([table |-> t2, objects |-> bucket, log |-> <<>>],
                                  slug, ids)
    IN  IF auth.status # 200 THEN Rejected("update_module", slug, cred, auth)
        ELSE IF module = NoItem
        THEN /\ Answer("update_module", slug, cred, update, auth, 404, "Module not found")
             /\ oplog' = << Op("get_item", "playbook", pk, "METADATA") >>
             /\ UNCHANGED <<inflight, env, blog, playbook, bucket, clock>>
        ELSE /\ clock < MaxClock
             /\ clock' = clock + 1
             /\ playbook' = st.table
             /\ bucket' = st.objects
             /\ oplog' = << Op("get_item", "playbook", pk, "METADATA") >>
                         \o log1 \o log2 \o st.log
             /\ Answer("update_module", slug, cred, update, auth, 200, "Module updated")
             /\ UNCHANGED <<inflight, env, blog>>

\* delete_module gone wrong: a partition without METADATA counts as no module.
delete_module_metadata_gate(cred, slug) ==
    LET auth    == verify_admin_token(cred)
        pk      == playbook_pk(slug)
        items   == IF get_item(playbook, pk, "METADATA") = NoItem THEN <<>>
                   ELSE _all_module_items(playbook, slug)
        s3_keys == _collect_s3_keys(items)
    IN  IF auth.status # 200 THEN Rejected("delete_module", slug, cred, auth)
        ELSE IF items = <<>>
        THEN /\ Answer("delete_module", slug, cred, None, auth, 404, "Module not found")
             /\ oplog' = << Op("query", "playbook", pk, "") >>
             /\ UNCHANGED <<inflight, env, blog, playbook, bucket, clock>>
        ELSE /\ bucket' = delete_s3_objects(bucket, s3_keys)
             /\ playbook' = batch_delete(playbook, items)
             /\ oplog' = << Op("query", "playbook", pk, "") >>
                         \o delete_s3_objects_log(s3_keys)
                         \o ItemOps("delete_item", items)
             /\ Answer("delete_module", slug, cred, None, auth, 200, "Module deleted")
             /\ UNCHANGED <<inflight, env, blog, clock>>

delete_module(cred, slug) ==
    LET auth    == verify_admin_token(cred)
        pk      == playbook_pk(slug)
        items   == _all_module_items(playbook, slug)
        s3_keys == _collect_s3_keys(items)
    IN  IF auth.status # 200 THEN Rejected("delete_module", slug, cred, auth)
        ELSE IF items = <<>>
        THEN /\ Answer("delete_module", slug, cred, None, auth, 404, "Module not found")
             /\ oplog' = << Op("query", "playbook", pk, "") >>
             /\ UNCHANGED <<inflight, env, blog, playbook, bucket, clock>>
        ELSE /\ bucket' = delete_s3_objects(bucket, s3_keys)
             /\ playbook' = batch_delete(playbook, items)
             /\ oplog' = << Op("query", "playbook", pk, "") >>
                         \o delete_s3_objects_log(s3_keys)
                         \o ItemOps("delete_item", items)
             /\ Answer("delete_module", slug, cred, None, auth, 200, "Module deleted")
             /\ UNCHANGED <<inflight, env, blog, clock>>

\* The browser uploads an object through a pre-signed PUT URL.
put_object(k) ==
    /\ k \notin bucket
    /\ bucket' = bucket \cup {k}
    /\ oplog' = <<>>
    /\ resp' = [route |-> "put_object", slug |-> k, cred |-> NoCredential,
                payload |-> None, status |-> 200, detail |-> "", identity |-> "",
                challenge |-> FALSE, body |-> None]
    /\ UNCHANGED <<inflight, env, blog, playbook, clock>>

----------------------------------------------------------------------------
(* shared/s3.py and admin/routes/upload.py                                 *)

_ALLOWED_ENTITY_TYPES == {"blog", "playbook"}

_ALLOWED_CONTENT_TYPES ==
    {"image/jpeg", "image/png", "image/gif", "image/webp", "image/svg+xml"}

expiry_seconds == 300

\* build_s3_key gone wrong: the problem id is left out of the key.
build_s3_key_without_problem(entity_type, entity_slug, filename, problem_id) ==
    IF entity_type = "blog"
    THEN Some("images/blog/" \o entity_slug \o "/" \o filename)
    ELSE IF entity_type = "playbook"
    THEN Some("images/playbook/" \o entity_slug \o "/" \o filename)
    ELSE None

\* build_s3_key gone wrong: playbook keys are built under the blog prefix.
build_s3_key_blog_prefix(entity_type, entity_slug, filename, problem_id) ==
    IF entity_type = "blog" \/ entity_type = "playbook"
    THEN IF entity_type = "playbook" /\ problem_id # None /\ problem_id[1] # ""
         THEN Some("images/blog/" \o entity_slug \o "/problems/"
                   \o problem_id[1] \o "/" \o filename)
         ELSE Some("images/blog/" \o entity_slug \o "/" \o filename)
    ELSE None

\* None stands for the ValueError raised on an unknown entity type.
build_s3_key(entity_type, entity_slug, filename, problem_id) ==
    IF entity_type = "blog"
    THEN Some("images/blog/" \o entity_slug \o "/" \o filename)
    ELSE IF entity_type = "playbook"
    THEN IF problem_id # None /\ problem_id[1] # ""
         THEN Some("images/playbook/" \o entity_slug \o "/problems/"
                   \o problem_id[1] \o "/" \o filename)
         ELSE Some("images/playbook/" \o entity_slug \o "/" \o filename)
    ELSE None

\* The pre-signed URL, as the operation and parameters it authorises.
generate_presigned_upload_url(s3_key, content_type) ==
    [ClientMethod |-> "put_object", Bucket |-> config.S3_BUCKET, Key |-> s3_key,
     ContentType |-> content_type, ExpiresIn |-> expiry_seconds]

get_upload_url(cred, req) ==
    LET auth   == verify_admin_token(cred)
        s3_key == build_s3_key(req.entity_type, req.entity_slug, req.filename,
                               req.problem_id)
    IN  /\ oplog' = <<>>
        /\ UNCHANGED <<inflight, env, blog, playbook, bucket, clock>>
        /\ IF auth.status # 200
           THEN Answer("get_upload_url", req.entity_slug, cred, None, auth,
                       auth.status, auth.detail)
           ELSE IF req.entity_type \notin _ALLOWED_ENTITY_TYPES
           THEN Answer("get_upload_url", req.entity_slug, cred, req, auth, 400,
                       "entity_type must be one of the allowed")
           ELSE IF req.content_type \notin _ALLOWED_CONTENT_TYPES
           THEN Answer("get_upload_url", req.entity_slug, cred, req, auth, 400,
                       "content_type must be one of the allowed")
           ELSE resp' = [route |-> "get_upload_url", slug |-> req.entity_slug,
                         cred |-> cred, payload |-> req, status |-> 200, detail |-> "",
                         identity |-> auth.identity, challenge |-> auth.challenge,
                         body |-> Some([url |-> generate_presigned_upload_url(
                                                    s3_key[1], req.content_type),
                                        s3Key |-> s3_key[1], key |-> req.filename])]

----------------------------------------------------------------------------
(* admin/handler.py and admin/routes/leetcode.py                           *)

\* The routers handler.py includes in the app.
included_routers == {"blog", "playbook", "upload"}

\* counts[entry["difficulty"]] = entry["count"] over the entries, then
\* counts.get(bucket, 0): the last entry of a bucket wins.
RECURSIVE counts_get(_, _, _)
counts_get(entries, difficulty_key, default) ==
    IF entries = <<>> THEN default
    ELSE LET last == entries[Len(entries)] IN
         IF last.difficulty = difficulty_key THEN last.count
         ELSE counts_get(SubSeq(entries, 1, Len(entries) - 1), difficulty_key, default)

\* The response of sync_leetcode records, as payload, the username asked for
\* and the answer the remote has for it.
\* remote is what urlopen and json.loads produce: failed (an exception inside
\* the try block), or the shape of the JSON body: object (the body is a JSON
\* object), data and matchedUser in {"absent", "null", "object"}, and entries,
\* the acSubmissionNum list (None when submitStats or the list is missing).
\* The result is an HTTP error status or the counts.
_fetch_leetcode_stats(remote) ==
    IF remote.failed THEN [status |-> 502]
    ELSE IF ~remote.object THEN [status |-> 500]
    ELSE IF remote.data = "null" THEN [status |-> 500]
    ELSE IF remote.data = "absent" \/ remote.matchedUser \in {"absent", "null"}
    THEN [status |-> 404]
    ELSE IF remote.entries = None THEN [status |-> 500]
    ELSE [status |-> 200,
          easy   |-> counts_get(remote.entries[1], "Easy", 0),
          medium |-> counts_get(remote.entries[1], "Medium", 0),
          hard   |-> counts_get(remote.entries[1], "Hard", 0),
          total  |-> counts_get(remote.entries[1], "All", 0)]

sync_leetcode(cred, req, remote) ==
    LET auth      == verify_admin_token(cred)
        stats     == _fetch_leetcode_stats(remote)
        synced_at == now_iso
        asked     == [username |-> req.username, remote |-> remote]
    IN  IF "leetcode" \notin included_routers
        THEN /\ resp' = [route |-> "sync_leetcode", slug |-> "", cred |-> cred,
                         payload |-> asked, status |-> 404, detail |-> "Not Found",
                         identity |-> "", challenge |-> FALSE, body |-> None]
             /\ oplog' = <<>>
             /\ UNCHANGED <<inflight, env, blog, playbook, bucket, clock>>
        ELSE IF auth.status # 200 THEN Rejected("sync_leetcode", "", cred, auth)
        ELSE IF stats.status # 200
        THEN /\ Answer("sync_leetcode", "", cred, asked, auth, stats.status,
                       IF stats.status = 502 THEN "LeetCode request failed"
                       ELSE IF stats.status = 404 THEN "LeetCode username not found"
                       ELSE "Internal Server Error")
             /\ oplog' = << Op("urlopen", "leetcode", req.username, "") >>
             /\ UNCHANGED <<inflight, env, blog, playbook, bucket, clock>>
        ELSE /\ clock < MaxClock
             /\ clock' = clock + 1
             /\ blog' = put_item(blog,
                    [PK |-> "LEETCODE#stats", SK |-> "METADATA", easy |-> stats.easy,
                     medium |-> stats.medium, hard |-> stats.hard,
                     total |-> stats.total, syncedAt |-> synced_at,
                     username |-> req.username])
             /\ oplog' = << Op("urlopen", "leetcode", req.username, ""),
                            Op("put_item", "blog", "LEETCODE#stats", "METADATA") >>
             /\ resp' = [route |-> "sync_leetcode", slug |-> "", cred |-> cred,
                         payload |-> asked, status |-> 200, detail |-> "",
                         identity |-> auth.identity, challenge |-> auth.challenge,
                         body |-> Some([username |-> req.username, easy |-> stats.easy,
                                        medium |-> stats.medium, hard |-> stats.hard,
                                        total |-> stats.total, syncedAt |-> synced_at])]
             /\ UNCHANGED <<inflight, env, playbook, bucket>>

----------------------------------------------------------------------------
(* Requests the environment may send                                       *)

AdminJwt == Jwt("HS256", "k1", FALSE, Some("A"))

Credentials == {AdminJwt, NoCredential, Jwt("HS256", "k1", FALSE, Some("b"))}

\* The process environment with the given variables set (None: unset).
EnvOf(admin, secret, key) ==
    [n \in (IF admin = None THEN {} ELSE {"ADMIN_EMAIL"})
           \cup (IF secret = None THEN {} ELSE {"NEXTAUTH_SECRET"})
           \cup (IF key = None THEN {} ELSE {"MCP_API_KEY"}) |->
        CASE n = "ADMIN_EMAIL" -> admin[1]
          [] n = "NEXTAUTH_SECRET" -> secret[1]
          [] OTHER -> key[1]]

EnvConfigured == EnvOf(Some("a"), Some("k1"), Some("btf_k1"))

EnvEmpty == EnvOf(None, None, None)

AuthEnvs ==
    {EnvOf(a, k, m) : a \in {None, Some("a"), Some("B")},
                      k \in {None, Some("k1")},
                      m \in {None, Some("btf_k1")}}

AuthCredentials ==
    {NoCredential, [scheme |-> "Basic", token |-> "eyJ", jwt |-> None],
     Bearer("not-a-real-jwt"), Bearer("btf_k1"), Bearer("btf_k2"), Bearer("btf_")}
    \cup {Jwt(alg, key, expired, email) :
            alg \in {"HS256", "none"}, key \in {"k1", "k2"}, expired \in BOOLEAN,
            email \in {None, Some(""), Some("a"), Some("A"), Some("b")}}

S3Keys == {"k1", "k2"}

Media(k) == [key |-> k, s3Key |-> k, type |-> "image"]

BlogSlugs == {"s1"}

PostCreates ==
    {[slug |-> s, title |-> "T1", date |-> "2026-02-18", excerpt |-> "E1",
      tags |-> <<"intro">>, content |-> "C1", media |-> m] :
        s \in BlogSlugs, m \in {<<>>, <<Media("k1")>>}}

NoPostUpdate ==
    [title |-> None, date |-> None, excerpt |-> None, tags |-> None,
     content |-> None, media |-> None]

PostUpdates ==
    {NoPostUpdate,
     [NoPostUpdate EXCEPT !.media = Some(<<Media("k2")>>)],
     [NoPostUpdate EXCEPT !.title = Some("T2"), !.content = Some("C2")]}

ModuleSlugs == {"m1"}

Problem(id, v) ==
    IF v = 1
    THEN [id |-> id, title |-> "P1", leetcodeUrl |-> "u", difficulty |-> "Easy",
          status |-> "New", pseudocode |-> "x", media |-> <<>>,
          tags |-> Some(<<"t">>), lastSolved |-> None, nextReview |-> Some("d")]
    ELSE [id |-> id, title |-> "P2", leetcodeUrl |-> "u", difficulty |-> "Hard",
          status |-> "Review", pseudocode |-> "y", media |-> <<Media("k2")>>,
          tags |-> None, lastSolved |-> None, nextReview |-> None]

\* Lists of problems with pairwise different ids.
ProblemLists ==
    {<<>>, <<Problem("p1", 1)>>, <<Problem("p1", 1), Problem("p2", 2)>>}

ModuleCreates ==
    {[slug |-> s, title |-> "M1", description |-> "D1", content |-> "C1",
      order |-> 1, media |-> m, problems |-> ps] :
        s \in ModuleSlugs, m \in {<<Media("k1")>>}, ps \in ProblemLists}

NoModuleUpdate ==
    [title |-> None, description |-> None, content |-> None, order |-> None,
     media |-> None, upsert_problems |-> None, delete_problem_ids |-> None]

UpsertLists ==
    {<<Problem("p1", 2)>>, <<Problem("p2", 2)>>, <<Problem("p2", 1), Problem("p1", 1)>>}

ModuleUpdates ==
    {[NoModuleUpdate EXCEPT !.title = Some("M2")],
     [NoModuleUpdate EXCEPT !.title = Some("M2"), !.media = Some(<<>>),
                            !.upsert_problems = Some(<<Problem("p2", 2)>>),
                            !.delete_problem_ids = Some(<<"p1">>)]}
    \cup {[NoModuleUpdate EXCEPT !.upsert_problems = u, !.delete_problem_ids = d] :
            u \in {None} \cup {Some(ps) : ps \in UpsertLists},
            d \in {None, Some(<<"p1">>), Some(<<"p2", "p1">>)}}

UploadRequests ==
    {[filename |-> "a.png", content_type |-> ct, entity_type |-> et,
      entity_slug |-> "s1", problem_id |-> p] :
        ct \in {"image/png", "application/pdf"}, et \in {"blog", "playbook", "unknown"},
        p \in {None, Some("p1")}}

SmallUploadRequests ==
    {r \in UploadRequests : r.problem_id = None /\
        (r.content_type = "image/png" \/ r.entity_type = "blog")}

\* Upload requests over every entity type, allowed and other content types,
\* and a problem id that is absent, empty or given.
AllUploadRequests ==
    {[filename |-> f, content_type |-> ct, entity_type |-> et,
      entity_slug |-> sl, problem_id |-> p] :
        f \in {"a.png", "b.svg"},
        ct \in {"image/png", "image/svg+xml", "application/pdf", "IMAGE/PNG"},
        et \in {"blog", "playbook", "unknown", ""},
        sl \in {"s1", "m1"},
        p \in {None, Some(""), Some("p1")}}

SyncRequests == {[username |-> "u"]}

RemoteAnswers ==
    {[failed |-> TRUE, object |-> FALSE, data |-> "absent", matchedUser |-> "absent",
      entries |-> None],
     [failed |-> FALSE, object |-> TRUE, data |-> "object", matchedUser |-> "null",
      entries |-> None],
     [failed |-> FALSE, object |-> TRUE, data |-> "object", matchedUser |-> "object",
      entries |-> Some(<<[difficulty |-> "All", count |-> 3],
                         [difficulty |-> "Easy", count |-> 2],
                         [difficulty |-> "Other", count |-> 7]>>)],
     [failed |-> FALSE, object |-> FALSE, data |-> "absent", matchedUser |-> "absent",
      entries |-> None],
     [failed |-> FALSE, object |-> TRUE, data |-> "null", matchedUser |-> "absent",
      entries |-> None],
     [failed |-> FALSE, object |-> TRUE, data |-> "object", matchedUser |-> "object",
      entries |-> None]}

----------------------------------------------------------------------------
(* The service                                                             *)

\* The requests the hosting environment runs side by side.
Requests == {1, 2}

IdleRequest ==
    [route |-> "", slug |-> "", cred |-> NoCredential,
     body |-> None, pc |-> "idle",
     found |-> None, ts |-> 0, k |-> 1, buf |-> <<>>, status |-> 0, detail |-> "", log |-> <<>>]

NoResponse ==
    [route |-> "", slug |-> "", cred |-> NoCredential, payload |-> None,
     status |-> 0, detail |-> "",
     identity |-> "", challenge |-> FALSE, body |-> None]

Init ==
    /\ env \in {EnvConfigured, EnvEmpty}
    /\ blog = EmptyTable
    /\ playbook = EmptyTable
    /\ bucket = {}
    /\ clock = 0
    /\ resp = NoResponse
    /\ oplog = <<>>
    /\ inflight = [i \in Requests |-> IdleRequest]

\* Every route, with the requests that exercise both tables and the bucket.
SmallModuleCreates ==
    {m \in ModuleCreates : m.problems \in {<<>>, <<Problem("p1", 1), Problem("p2", 2)>>}}

SmallModuleUpdates ==
    {[NoModuleUpdate EXCEPT !.delete_problem_ids = Some(<<"p2", "p1">>)],
     [NoModuleUpdate EXCEPT !.title = Some("M2"), !.media = Some(<<>>),
                            !.upsert_problems = Some(<<Problem("p2", 2)>>),
                            !.delete_problem_ids = Some(<<"p1">>)],
     [NoModuleUpdate EXCEPT !.upsert_problems = Some(<<Problem("p1", 2)>>),
                            !.delete_problem_ids = Some(<<"p1">>)]}

Next ==
    \/ \E cred \in Credentials, post \in PostCreates : create_post(cred, post)
    \/ \E cred \in Credentials, slug \in BlogSlugs, update \in PostUpdates :
           update_post(cred, slug, update)
    \/ \E cred \in Credentials, slug \in BlogSlugs : delete_post(cred, slug)
    \/ \E cred \in Credentials, module \in SmallModuleCreates : create_module(cred, module)
    \/ \E cred \in Credentials, slug \in ModuleSlugs, update \in SmallModuleUpdates :
           update_module(cred, slug, update)
    \/ \E cred \in Credentials, slug \in ModuleSlugs : delete_module(cred, slug)
    \/ \E cred \in Credentials, req \in SmallUploadRequests : get_upload_url(cred, req)
    \/ \E cred \in Credentials, req \in SyncRequests, remote \in RemoteAnswers :
           sync_leetcode(cred, req, remote)
    \/ \E k \in S3Keys : put_object(k)

Spec == Init /\ [][Next]_vars

\* The blog resource manager alone.
NextBlog ==
    \/ \E cred \in Credentials, post \in PostCreates : create_post(cred, post)
    \/ \E cred \in Credentials, slug \in BlogSlugs, update \in PostUpdates :
           update_post(cred, slug, update)
    \/ \E cred \in Credentials, slug \in BlogSlugs : delete_post(cred, slug)
    \/ \E k \in S3Keys : put_object(k)

SpecBlog == Init /\ [][NextBlog]_vars

\* The playbook resource manager alone.
NextPlaybook ==
    \/ \E cred \in Credentials, module \in ModuleCreates : create_module(cred, module)
    \/ \E cred \in Credentials, slug \in ModuleSlugs, update \in ModuleUpdates :
           update_module(cred, slug, update)
    \/ \E cred \in Credentials, slug \in ModuleSlugs : delete_module(cred, slug)
    \/ \E k \in S3Keys : put_object(k)

SpecPlaybook == Init /\ [][NextPlaybook]_vars

\* The blog resource manager over a bucket whose bulk delete may fail.
NextBlobFailure ==
    \/ \E cred \in Credentials, post \in PostCreates : create_post(cred, post)
    \/ \E cred \in Credentials, slug \in BlogSlugs, update \in PostUpdates :
           update_post(cred, slug, update)
    \/ \E cred \in Credentials, slug \in BlogSlugs, outcome \in S3Outcomes :
           delete_post_when(cred, slug, outcome)
    \/ \E k \in S3Keys : put_object(k)

SpecBlobFailure == Init /\ [][NextBlobFailure]_vars

\* The upload route alone.
NextUpload ==
    \E cred \in Credentials, req \in AllUploadRequests : get_upload_url(cred, req)

SpecUpload == Init /\ [][NextUpload]_vars

\* The credential verifier alone, over the configurations a deployment may have.
InitAuth ==
    /\ env \in AuthEnvs
    /\ blog = EmptyTable
    /\ playbook = EmptyTable
    /\ bucket = {}
    /\ clock = 0
    /\ resp = NoResponse
    /\ oplog = <<>>
    /\ inflight = [i \in Requests |-> IdleRequest]

NextAuth == \E cred \in AuthCredentials : authenticate(cred)

SpecAuth == InitAuth /\ [][NextAuth]_vars

----------------------------------------------------------------------------
(* Properties                                                              *)

\* The request answered last came with an accepted credential.
Authorized(r) == r.identity # ""

PostExists(table, slug) == <<blog_pk(slug), "METADATA">> \in DOMAIN table

ModuleExists(table, slug) == <<playbook_pk(slug), "METADATA">> \in DOMAIN table

\* C1: an authorized create_post for a slug whose document exists answers 409
\* and leaves the blog table as it was; an authorized create_module for a slug
\* whose METADATA document exists answers 409 and leaves the playbook table as
\* it was (neither the metadata nor a problem document is written).
C1_DuplicateCreateConflicts ==
    [][ /\ (resp'.route = "create_post" /\ Authorized(resp') /\ PostExists(blog, resp'.slug))
            => (resp'.status = 409 /\ blog' = blog)
        /\ (resp'.route = "create_module" /\ Authorized(resp')
                /\ ModuleExists(playbook, resp'.slug))
            => (resp'.status = 409 /\ playbook' = playbook) ]_vars

C1_Witness ==
    /\ resp.route = "create_module" /\ resp.status = 409
    /\ ModuleExists(playbook, resp.slug)
    /\ PostExists(blog, "s1")

WriteRoutes ==
    {"create_post", "update_post", "delete_post", "create_module", "update_module",
     "delete_module", "get_upload_url", "sync_leetcode"}

\* C2: a request to a write route that the verifier answers with 401, 403 or
\* 500 issues no call to a table or to the bucket and leaves both stores as
\* they were.
C2_RejectedRequestTouchesNothing ==
    [][ (resp'.route \in WriteRoutes /\ ~Authorized(resp')
            /\ resp'.status \in {401, 403, 500})
        => (oplog' = <<>> /\ blog' = blog /\ playbook' = playbook /\ bucket' = bucket) ]_vars

C2_Witness ==
    /\ resp.route = "delete_module" /\ resp.status = 403
    /\ ModuleExists(playbook, resp.slug) /\ PostExists(blog, "s1") /\ bucket # {}

\* What the deployment configures.
SigningSecret == getenv("NEXTAUTH_SECRET", "")

AdminEmail == getenv("ADMIN_EMAIL", "")

ServiceKey == getenv("MCP_API_KEY", "")

SignedTokenCase(r) ==
    r.route = "verify_admin_token" /\ ~startswith(r.cred.token, "btf_")

\* Malformed, signed with another key, or another algorithm.
BadToken(c) ==
    c.jwt = None \/ c.jwt[1].alg # "HS256" \/ c.jwt[1].key # SigningSecret

\* C3 as stated: for a credential without the service-key prefix the verifier
\* answers 401 when it is missing, malformed, badly signed, of another
\* algorithm or expired, 500 when no signing secret is configured, 403 when
\* the email claim is absent or differs from the admin email ignoring case,
\* and accepts the email claim as the identity otherwise.
C3_AsStated ==
    SignedTokenCase(resp) =>
        LET c == resp.cred IN
        IF c.scheme # "Bearer" THEN resp.status = 401
        ELSE IF SigningSecret = "" THEN resp.status = 500
        ELSE IF BadToken(c) THEN resp.status = 401
        ELSE IF c.jwt[1].expired THEN resp.status = 401
        ELSE IF c.jwt[1].email = None
                \/ lower(c.jwt[1].email[1]) # lower(AdminEmail)
        THEN resp.status = 403
        ELSE resp.status = 200 /\ resp.identity = c.jwt[1].email[1]

\* C3 (amended): as stated, except that an empty email claim is answered 403
\* like an absent one, also when the configured admin email is empty.
C3_SignedTokenOutcomes ==
    SignedTokenCase(resp) =>
        LET c == resp.cred IN
        IF c.scheme # "Bearer" THEN resp.status = 401
        ELSE IF SigningSecret = "" THEN resp.status = 500
        ELSE IF BadToken(c) THEN resp.status = 401
        ELSE IF c.jwt[1].expired THEN resp.status = 401
        ELSE IF c.jwt[1].email = None \/ c.jwt[1].email[1] = ""
                \/ lower(c.jwt[1].email[1]) # lower(AdminEmail)
        THEN resp.status = 403
        ELSE resp.status = 200 /\ resp.identity = c.jwt[1].email[1]

C3_Witness ==
    /\ SignedTokenCase(resp) /\ resp.status = 200
    /\ resp.identity = "A" /\ AdminEmail = "a"

\* C4: a credential with the prefix btf_ is accepted as "mcp-server" when it
\* equals the configured service key, answered 401 when it differs, answered
\* 500 when no service key is configured, and never judged as a signed token.
C4_ServiceKeyOutcomes ==
    (resp.route = "verify_admin_token" /\ resp.cred.scheme = "Bearer"
        /\ startswith(resp.cred.token, "btf_")) =>
        IF ServiceKey = "" THEN resp.status = 500
        ELSE IF resp.cred.token = ServiceKey
        THEN resp.status = 200 /\ resp.identity = "mcp-server"
        ELSE resp.status = 401

\* The sort keys stored under a module's partition key.
PartitionSKs(table, slug) == {k[2] : k \in {d \in DOMAIN table : d[1] = playbook_pk(slug)}}

ProblemSKs(table, slug) == PartitionSKs(table, slug) \ {"METADATA"}

Logged(log, op, table, pk, sk) == \E i \in 1..Len(log) : log[i] = Op(op, table, pk, sk)

SeqSet(s) == {s[i] : i \in 1..Len(s)}

StoredS3Keys(item) == {item.media[m].s3Key : m \in 1..Len(item.media)}

UpsertsOf(r) ==
    IF r.route = "update_module" /\ r.payload.upsert_problems # None
    THEN r.payload.upsert_problems[1] ELSE <<>>

DeleteIdsOf(r) ==
    IF r.route = "update_module" /\ r.payload.delete_problem_ids # None
    THEN r.payload.delete_problem_ids[1] ELSE <<>>

\* The s3Key values of the document that the logged delete e removed: the
\* version the same request upserted, or else the one stored before it.
DeletedDocS3Keys(e, upserts) ==
    IF \E j \in 1..Len(upserts) : _problem_sk(upserts[j].id) = e[4]
    THEN UNION {StoredS3Keys(upserts[j]) :
                    j \in {n \in 1..Len(upserts) : _problem_sk(upserts[n].id) = e[4]}}
    ELSE StoredS3Keys((IF e[2] = "blog" THEN blog ELSE playbook)[<<e[3], e[4]>>])

\* C6: when delete_post, delete_module or update_module has answered 200, every
\* s3Key listed in the media of a document the request deleted is absent from
\* the bucket, and the bulk delete naming those keys was issued before the
\* delete of that document.
C6_BlobsDeletedBeforeDocument ==
    [][ (resp'.route \in {"delete_post", "delete_module", "update_module"}
            /\ resp'.status = 200) =>
        \A i \in 1..Len(oplog') :
            oplog'[i][1] = "delete_item" =>
                LET keys == DeletedDocS3Keys(oplog'[i], UpsertsOf(resp')) IN
                /\ keys \cap bucket' = {}
                /\ keys # {} =>
                       \E j \in 1..(i - 1) :
                           /\ oplog'[j][1] = "delete_objects"
                           /\ keys \subseteq SeqSet(oplog'[j][3]) ]_vars

C6_Witness ==
    /\ resp.route = "update_module" /\ resp.status = 200
    /\ resp.payload.delete_problem_ids = Some(<<"p2", "p1">>)
    /\ Logged(oplog, "delete_objects", "s3", <<"k2">>, "")
    /\ Logged(oplog, "delete_item", "playbook", playbook_pk(resp.slug), "PROBLEM#p2")
    /\ bucket = {"k1"}

\* C7: when update_module has answered 200, every upserted problem that is
\* stored afterwards has updatedAt equal to the request's timestamp, and has
\* the createdAt of the document stored before the request when the id
\* existed, the request's timestamp when it did not.
C7_UpsertKeepsCreatedAt ==
    [][ (resp'.route = "update_module" /\ resp'.status = 200) =>
        \A j \in 1..Len(UpsertsOf(resp')) :
            LET key == <<playbook_pk(resp'.slug), _problem_sk(UpsertsOf(resp')[j].id)>> IN
            key \in DOMAIN playbook' =>
                /\ playbook'[key].updatedAt = clock
                /\ playbook'[key].createdAt =
                       IF key \in DOMAIN playbook THEN playbook[key].createdAt ELSE clock ]_vars

C7_Witness ==
    LET p1 == <<playbook_pk("m1"), "PROBLEM#p1">>
        p2 == <<playbook_pk("m1"), "PROBLEM#p2">>
    IN  /\ resp.route = "update_module" /\ resp.status = 200
        /\ resp.payload.upsert_problems = Some(<<Problem("p2", 1), Problem("p1", 1)>>)
        /\ {p1, p2} \subseteq DOMAIN playbook
        /\ playbook[p1].createdAt < playbook[p1].updatedAt
        /\ playbook[p2].createdAt = playbook[p2].updatedAt
        /\ playbook[p2].updatedAt = playbook[p1].updatedAt

\* C8: create_module stores exactly the problems of its payload; update_module
\* leaves the stored problem ids plus the upserted ids minus the deleted ids;
\* after delete_module neither the module nor a problem exists; any other
\* step leaves the stored problem ids as they were.
C8_ProblemSetSemantics ==
    [][ LET slug   == "m1"
            before == ProblemSKs(playbook, slug)
            after  == ProblemSKs(playbook', slug)
        IN  IF resp'.route = "create_module" /\ resp'.status = 201
            THEN after = {_problem_sk(p.id) : p \in SeqSet(resp'.payload.problems)}
            ELSE IF resp'.route = "update_module" /\ resp'.status = 200
            THEN after = (before \cup {_problem_sk(p.id) : p \in SeqSet(UpsertsOf(resp'))})
                            \ {_problem_sk(id) : id \in SeqSet(DeleteIdsOf(resp'))}
            ELSE IF resp'.route = "delete_module" /\ resp'.status = 200
            THEN after = {} /\ ~ModuleExists(playbook', slug)
            ELSE after = before ]_vars

C8_Witness ==
    /\ resp.route = "update_module" /\ resp.status = 200
    /\ resp.payload.upsert_problems = Some(<<Problem("p2", 2)>>)
    /\ resp.payload.delete_problem_ids = Some(<<"p1">>)
    /\ Logged(oplog, "delete_item", "playbook", playbook_pk("m1"), "PROBLEM#p1")
    /\ ProblemSKs(playbook, "m1") = {"PROBLEM#p2"}

\* C9: a delete that answered 200 leaves no document that makes the slug
\* conflict, and an authorized create with the same slug right after it
\* answers 201, for posts and for modules with problems.
C9_RecreateAfterDelete ==
    [][ /\ (resp'.route = "delete_post" /\ resp'.status = 200)
                => ~PostExists(blog', resp'.slug)
        /\ (resp'.route = "delete_module" /\ resp'.status = 200)
                => ~ModuleExists(playbook', resp'.slug)
        /\ (resp.route = "delete_post" /\ resp.status = 200
                /\ resp'.route = "create_post" /\ Authorized(resp')
                /\ resp'.slug = resp.slug) => resp'.status = 201
        /\ (resp.route = "delete_module" /\ resp.status = 200
                /\ resp'.route = "create_module" /\ Authorized(resp')
                /\ resp'.slug = resp.slug) => resp'.status = 201 ]_vars

C9_Witness ==
    /\ resp.route = "create_module" /\ resp.status = 201
    /\ Len(resp.payload.problems) = 2
    /\ playbook[<<playbook_pk(resp.slug), "METADATA">>].createdAt = 2
    /\ ~PostExists(blog, "s1") /\ clock = 3

\* C10: an authorized update_post for a stored post whose body sets no
\* recognised field answers 400 and leaves the blog table, and so the
\* document and its updatedAt, as it was.
C10_EmptyUpdateRejected ==
    [][ (resp'.route = "update_post" /\ Authorized(resp')
            /\ PostExists(blog, resp'.slug)
            /\ \A f \in SeqSet(PostUpdateFields) : resp'.payload[f] = None)
        => (resp'.status = 400 /\ blog' = blog) ]_vars

C10_Witness ==
    /\ resp.route = "update_post" /\ resp.status = 400
    /\ resp.payload = NoPostUpdate
    /\ PostExists(blog, resp.slug)
    /\ blog[<<blog_pk(resp.slug), "METADATA">>].createdAt
           < blog[<<blog_pk(resp.slug), "METADATA">>].updatedAt

\* C11: an authorized update_module for a stored module whose body names no
\* module-level field, no upsert and no delete answers 200 for that slug,
\* issues no write to a table or to the bucket, and leaves both tables (the
\* module's updatedAt included) and the bucket as they were.
C11_EmptyModuleUpdateIsNoOp ==
    [][ (resp'.route = "update_module" /\ Authorized(resp')
            /\ ModuleExists(playbook, resp'.slug)
            /\ \A f \in DOMAIN NoModuleUpdate : resp'.payload[f] = None)
        => /\ resp'.status = 200 /\ resp'.detail = "Module updated"
           /\ oplog' = << Op("get_item", "playbook", playbook_pk(resp'.slug), "METADATA") >>
           /\ playbook' = playbook /\ blog' = blog /\ bucket' = bucket ]_vars

C11_Witness ==
    LET md == <<playbook_pk(resp.slug), "METADATA">> IN
    /\ resp.route = "update_module" /\ resp.status = 200
    /\ resp.payload = NoModuleUpdate
    /\ ModuleExists(playbook, resp.slug)
    /\ playbook[md].updatedAt + 1 < clock
    /\ ProblemSKs(playbook, resp.slug) # {}
    /\ bucket # {}

\* The sort keys a request's upserts and deletes name.
UpsertSKs(r) == {_problem_sk(p.id) : p \in SeqSet(UpsertsOf(r))}

DeleteSKs(r) == {_problem_sk(id) : id \in SeqSet(DeleteIdsOf(r))}

CountOps(log, op) == Cardinality({i \in 1..Len(log) : log[i][1] = op})

\* C12: an authorized update_module for a stored module answers 200 whatever
\* ids it is asked to delete; for an id that names no problem of the module
\* (none stored, none upserted by the request) no document delete is issued
\* and no document appears, a bulk delete is issued only for a deleted
\* problem that exists and lists media, and the problems the request does
\* not name are left as they were.
C12_MissingProblemIdSkipped ==
    [][ (resp'.route = "update_module" /\ Authorized(resp')
            /\ ModuleExists(playbook, resp'.slug)) =>
        LET pk      == playbook_pk(resp'.slug)
            stored  == ProblemSKs(playbook, resp'.slug)
            missing == DeleteSKs(resp') \ (stored \cup UpsertSKs(resp'))
            present == DeleteSKs(resp') \ missing
        IN  /\ resp'.status = 200
            /\ \A sk \in missing :
                   /\ Logged(oplog', "get_item", "playbook", pk, sk)
                   /\ ~Logged(oplog', "delete_item", "playbook", pk, sk)
                   /\ <<pk, sk>> \notin DOMAIN playbook'
            /\ CountOps(oplog', "delete_item") = Cardinality(present)
            /\ CountOps(oplog', "delete_objects")
                   = Cardinality({i \in 1..Len(oplog') :
                        /\ oplog'[i][1] = "delete_item"
                        /\ DeletedDocS3Keys(oplog'[i], UpsertsOf(resp')) # {}})
            /\ \A sk \in stored \ (UpsertSKs(resp') \cup present) :
                   /\ <<pk, sk>> \in DOMAIN playbook'
                   /\ playbook'[<<pk, sk>>] = playbook[<<pk, sk>>] ]_vars

C12_Witness ==
    LET pk == playbook_pk(resp.slug) IN
    /\ resp.route = "update_module" /\ resp.status = 200
    /\ resp.payload.upsert_problems = None
    /\ resp.payload.delete_problem_ids = Some(<<"p1">>)
    /\ Logged(oplog, "get_item", "playbook", pk, "PROBLEM#p1")
    /\ ~Logged(oplog, "delete_item", "playbook", pk, "PROBLEM#p1")
    /\ <<pk, "PROBLEM#p2">> \in DOMAIN playbook
    /\ "k2" \in bucket

StoresUnchanged == blog' = blog /\ playbook' = playbook /\ bucket' = bucket

\* C13: an authorized update_post or delete_post for a slug with no stored
\* post, whatever the update body, an authorized update_module for a slug
\* with no METADATA document, and an authorized delete_module for a slug with
\* no document in its partition answer 404 and leave both tables and the
\* bucket as they were; so does a delete right after a delete of the same
\* slug that answered 200.
C13_AbsentDocumentNotFound ==
    [][ /\ (resp'.route \in {"update_post", "delete_post"} /\ Authorized(resp')
                /\ ~PostExists(blog, resp'.slug))
            => (resp'.status = 404 /\ StoresUnchanged)
        /\ (resp'.route = "update_module" /\ Authorized(resp')
                /\ ~ModuleExists(playbook, resp'.slug))
            => (resp'.status = 404 /\ StoresUnchanged)
        /\ (resp'.route = "delete_module" /\ Authorized(resp')
                /\ PartitionSKs(playbook, resp'.slug) = {})
            => (resp'.status = 404 /\ StoresUnchanged)
        /\ (resp.route \in {"delete_post", "delete_module"} /\ resp.status = 200
                /\ resp'.route = resp.route /\ resp'.slug = resp.slug
                /\ Authorized(resp'))
            => (resp'.status = 404 /\ StoresUnchanged) ]_vars

C13_Witness ==
    /\ resp.route = "update_post" /\ resp.status = 404
    /\ resp.payload = NoPostUpdate
    /\ ~PostExists(blog, resp.slug)
    /\ ModuleExists(playbook, "m1") /\ bucket # {}

\* C14: an authorized get_upload_url answers 400 with no URL when entity_type
\* is neither blog nor playbook, else 400 with no URL when content_type is
\* not one of the five image types, else 200 with the caller's filename, the
\* key images/blog/<slug>/<filename> for blog,
\* images/playbook/<slug>/problems/<problemId>/<filename> for playbook with a
\* (non-empty) problem id and images/playbook/<slug>/<filename> for playbook
\* without one, and a URL issued for that key and content type.
C14_UploadUrlKeys ==
    (resp.route = "get_upload_url" /\ Authorized(resp)) =>
        LET q == resp.payload IN
        IF q.entity_type \notin {"blog", "playbook"}
        THEN resp.status = 400 /\ resp.body = None
        ELSE IF q.content_type \notin {"image/jpeg", "image/png", "image/gif",
                                        "image/webp", "image/svg+xml"}
        THEN resp.status = 400 /\ resp.body = None
        ELSE LET expected ==
                    IF q.entity_type = "blog"
                    THEN "images/blog/" \o q.entity_slug \o "/" \o q.filename
                    ELSE IF q.problem_id \in {None, Some("")}
                    THEN "images/playbook/" \o q.entity_slug \o "/" \o q.filename
                    ELSE "images/playbook/" \o q.entity_slug \o "/problems/"
                             \o q.problem_id[1] \o "/" \o q.filename
             IN  /\ resp.status = 200
                 /\ resp.body # None
                 /\ resp.body[1].s3Key = expected
                 /\ resp.body[1].key = q.filename
                 /\ resp.body[1].url.Key = expected
                 /\ resp.body[1].url.ContentType = q.content_type

C14_Witness ==
    /\ resp.route = "get_upload_url" /\ resp.status = 200
    /\ resp.payload.entity_type = "playbook"
    /\ resp.payload.problem_id = Some("p1")
    /\ resp.body[1].s3Key = "images/playbook/m1/problems/p1/b.svg"

\* C15: every 401 and every 403 answer of the verifier carries the challenge
\* (WWW-Authenticate: Bearer).
C15_RejectionsCarryChallenge ==
    (resp.route = "verify_admin_token" /\ resp.status \in {401, 403}) => resp.challenge

\* C16: an authorized delete_post for a stored post answers 200 and deletes
\* the document, whether or not the bulk delete of its blobs succeeded.
C16_BlobFailureDoesNotBlockDelete ==
    [][ (resp'.route = "delete_post" /\ Authorized(resp')
            /\ PostExists(blog, resp'.slug))
        => (resp'.status = 200 /\ ~PostExists(blog', resp'.slug)) ]_vars

\* The request to the sync route came with a credential the verifier accepts.
SyncAccepted(r) == r.route = "sync_leetcode" /\ verify_admin_token(r.cred).status = 200

\* C17: an authenticated POST /api/leetcode/sync is served by the app: it is
\* never answered by the framework's 404 for a path that no included router
\* serves.
C17_SyncRouteServed ==
    SyncAccepted(resp) => ~(resp.status = 404 /\ resp.detail = "Not Found")

\* The remote answered with a matched user and its list of counts.
RemoteSucceeded(remote) ==
    /\ ~remote.failed /\ remote.object /\ remote.data = "object"
    /\ remote.matchedUser = "object" /\ remote.entries # None

\* The count the list gives for a bucket, 0 when the list has no such bucket.
BucketCount(entries, name) ==
    IF \E i \in 1..Len(entries) : entries[i].difficulty = name
    THEN entries[CHOOSE i \in 1..Len(entries) : entries[i].difficulty = name].count
    ELSE 0

\* C18: an accepted sync request whose remote answer is successful answers
\* 200, stores under <<LEETCODE#stats, METADATA>> exactly the counts of the
\* buckets Easy, Medium, Hard and All (0 for a missing one), the username and
\* the timestamp of the request, and returns these counts and that timestamp.
C18_SyncStoresCounts ==
    [][ (SyncAccepted(resp') /\ RemoteSucceeded(resp'.payload.remote)) =>
        LET es   == resp'.payload.remote.entries[1]
            key  == <<"LEETCODE#stats", "METADATA">>
            want == [easy   |-> BucketCount(es, "Easy"),
                     medium |-> BucketCount(es, "Medium"),
                     hard   |-> BucketCount(es, "Hard"),
                     total  |-> BucketCount(es, "All")]
        IN  /\ resp'.status = 200
            /\ key \in DOMAIN blog'
            /\ blog'[key] = [PK |-> key[1], SK |-> key[2], easy |-> want.easy,
                             medium |-> want.medium, hard |-> want.hard,
                             total |-> want.total, syncedAt |-> clock,
                             username |-> resp'.payload.username]
            /\ resp'.body = Some([username |-> resp'.payload.username,
                                  easy |-> want.easy, medium |-> want.medium,
                                  hard |-> want.hard, total |-> want.total,
                                  syncedAt |-> clock]) ]_vars

\* C19: an accepted sync request answers 502 when the remote call fails or
\* its answer lacks the expected structure, 404 when the answer has no
\* matching user, and in both cases leaves the blog table as it was.
C19_SyncFailuresLeaveStats ==
    [][ SyncAccepted(resp') =>
        LET remote == resp'.payload.remote IN
        IF remote.failed \/ ~remote.object \/ remote.data = "null"
              \/ (remote.data = "object" /\ remote.matchedUser = "object"
                    /\ remote.entries = None)
        THEN resp'.status = 502 /\ blog' = blog
        ELSE IF ~RemoteSucceeded(remote)
        THEN resp'.status = 404 /\ blog' = blog
        ELSE TRUE ]_vars

\* The fields a post update body sets, in declaration order, with updatedAt.
RECURSIVE SetFieldsOf(_, _)
SetFieldsOf(body, fields) ==
    IF fields = <<>> THEN <<>>
    ELSE (IF body[Head(fields)] # None
          THEN << <<Head(fields), body[Head(fields)][1]>> >> ELSE <<>>)
         \o SetFieldsOf(body, Tail(fields))

\* C20: when update_post has answered 200, the stored document has each field
\* the body sets at the body's value and updatedAt at the request's
\* timestamp, every other attribute (PK, SK, createdAt, the fields the body
\* leaves out) as before, and no other document is touched; the update
\* expression built for the body has one SET clause per field, with its own
\* name placeholder bound to the field's name and its own value placeholder
\* bound to the field's value.
C20_UpdateSetsExactlyBodyFields ==
    [][ (resp'.route = "update_post" /\ resp'.status = 200) =>
        LET key  == <<blog_pk(resp'.slug), "METADATA">>
            set  == SetFieldsOf(resp'.payload,
                                <<"title", "date", "excerpt", "tags", "content", "media">>)
            data == set \o << <<"updatedAt", clock>> >>
            ue   == build_update_expression(data)
        IN  /\ key \in DOMAIN blog /\ DOMAIN blog' = DOMAIN blog
            /\ \A k \in DOMAIN blog \ {key} : blog'[k] = blog[k]
            /\ DOMAIN blog'[key] = DOMAIN blog[key] \cup {d[1] : d \in SeqSet(data)}
            /\ \A d \in SeqSet(data) : blog'[key][d[1]] = d[2]
            /\ \A a \in DOMAIN blog[key] \ {d[1] : d \in SeqSet(data)} :
                   blog'[key][a] = blog[key][a]
            /\ Len(ue.expr) = Len(data)
            /\ \A i \in 1..Len(data) :
                   /\ ue.names[ue.expr[i][1]] = data[i][1]
                   /\ ue.values[ue.expr[i][2]] = data[i][2]
            /\ \A i, j \in 1..Len(data) :
                   i # j => (ue.expr[i][1] # ue.expr[j][1] /\ ue.expr[i][2] # ue.expr[j][2])
            /\ Cardinality(DOMAIN ue.names) = Len(data)
            /\ Cardinality(DOMAIN ue.values) = Len(data) ]_vars

C20_Witness ==
    LET key == <<blog_pk(resp.slug), "METADATA">> IN
    /\ resp.route = "update_post" /\ resp.status = 200
    /\ resp.payload.title = Some("T2") /\ resp.payload.content = Some("C2")
    /\ resp.payload.media = None
    /\ blog[key].title = "T2" /\ blog[key].excerpt = "E1"
    /\ blog[key].media = <<Media("k1")>>
    /\ blog[key].createdAt < blog[key].updatedAt

\* The s3Key values listed by the documents stored in both tables.
ListedS3Keys(b, p) ==
    UNION ({StoredS3Keys(b[k]) : k \in {d \in DOMAIN b : "media" \in DOMAIN b[d]}}
           \cup {StoredS3Keys(p[k]) : k \in DOMAIN p})

\* C21: when delete_post, delete_module or update_module has answered 200, no
\* blob that the request removed from the bucket is listed as s3Key in the
\* media of a document that is still stored.
C21_SurvivorsKeepTheirBlobs ==
    [][ (resp'.route \in {"delete_post", "delete_module", "update_module"}
            /\ resp'.status = 200)
        => (bucket \ bucket') \cap ListedS3Keys(blog', playbook') = {} ]_vars

----------------------------------------------------------------------------
(* Requests that run side by side.  The hosting environment invokes the    *)
(* handlers in parallel; a handler is split at its calls of the tables and *)
(* the bucket, and a step is the code up to and including one call (the   *)
(* last step runs on to the return).  inflight[i] is the local state of   *)
(* the request in slot i.                                                 *)

\* The request in slot i goes on with local state r.
Continue(i, r) ==
    /\ inflight' = [inflight EXCEPT ![i] = r]
    /\ UNCHANGED <<resp, oplog>>

\* The request in slot i returns (or raises HTTPException) with local state r.
Return(i, r, status, detail) ==
    /\ inflight' = [inflight EXCEPT ![i] =
                        [r EXCEPT !.pc = "done", !.status = status, !.detail = detail]]
    /\ Answer(r.route, r.slug, r.cred, r.body, verify_admin_token(r.cred), status, detail)
    /\ oplog' = r.log

\* The dependency raised in slot i: the route body does not run.
Refused(i, route, slug, cred) ==
    LET auth == verify_admin_token(cred)
    IN  Return(i, [IdleRequest EXCEPT !.route = route, !.slug = slug, !.cred = cred],
               auth.status, auth.detail)

Started(route, slug, cred, body, pc, log) ==
    [IdleRequest EXCEPT !.route = route, !.slug = slug, !.cred = cred,
                        !.body = body, !.pc = pc, !.log = log]

At(i, route, pc) == inflight[i].route = route /\ inflight[i].pc = pc

\* The item create_post puts.
PostItem(post, ts) ==
    [PK |-> blog_pk(post.slug), SK |-> "METADATA", title |-> post.title,
     date |-> post.date, excerpt |-> post.excerpt,
     tags |-> post.tags, content |-> post.content,
     media |-> dump_media_list(post.media),
     createdAt |-> ts, updatedAt |-> ts]

\* create_post up to the existence check.
create_post_get_item(i, cred, post) ==
    LET pk       == blog_pk(post.slug)
        existing == get_item(blog, pk, "METADATA")
        log      == << Op("get_item", "blog", pk, "METADATA") >>
    IN  /\ inflight[i].pc = "idle"
        /\ IF verify_admin_token(cred).status # 200
           THEN Refused(i, "create_post", post.slug, cred)
           ELSE IF existing # NoItem
           THEN Return(i, Started("create_post", post.slug, cred, post, "get_item", log),
                       409, "Post with slug '" \o post.slug \o "' already exists")
           ELSE Continue(i, Started("create_post", post.slug, cred, post, "put_item", log))
        /\ UNCHANGED <<env, blog, playbook, bucket, clock>>

\* create_post from the time stamp to the return.
create_post_put_item(i) ==
    LET r  == inflight[i]
        ts == now_iso
    IN  /\ At(i, "create_post", "put_item")
        /\ clock < MaxClock
        /\ clock' = clock + 1
        /\ blog' = put_item(blog, PostItem(r.body, ts))
        /\ Return(i, [r EXCEPT !.ts = ts,
                               !.log = @ \o << Op("put_item", "blog", blog_pk(r.slug),
                                                  "METADATA") >>],
                  201, "Post created")
        /\ UNCHANGED <<env, playbook, bucket>>

\* The items create_module puts into its batch.
ModuleItems(module, ts) ==
    << [PK |-> playbook_pk(module.slug), SK |-> "METADATA", collection |-> "PLAYBOOK",
        title |-> module.title, description |-> module.description,
        content |-> module.content, order |-> module.order,
        media |-> dump_media_list(module.media),
        createdAt |-> ts, updatedAt |-> ts] >>
    \o [i \in 1..Len(module.problems) |->
            _problem_item(module.slug, module.problems[i], ts)]

\* create_module up to the existence check.
create_module_get_item(i, cred, module) ==
    LET pk       == playbook_pk(module.slug)
        existing == get_item(playbook, pk, "METADATA")
        log      == << Op("get_item", "playbook", pk, "METADATA") >>
    IN  /\ inflight[i].pc = "idle"
        /\ IF verify_admin_token(cred).status # 200
           THEN Refused(i, "create_module", module.slug, cred)
           ELSE IF existing # NoItem
           THEN Return(i, Started("create_module", module.slug, cred, module,
                                  "get_item", log),
                       409, "Module with slug '" \o module.slug \o "' already exists")
           ELSE Continue(i, Started("create_module", module.slug, cred, module,
                                    "batch_writer", log))
        /\ UNCHANGED <<env, blog, playbook, bucket, clock>>

\* create_module from the time stamp to the return: the batch is flushed in
\* one BatchWriteItem call when the with block is left.
create_module_batch_writer(i) ==
    LET r     == inflight[i]
        ts    == now_iso
        items == ModuleItems(r.body, ts)
    IN  /\ At(i, "create_module", "batch_writer")
        /\ clock < MaxClock
        /\ clock' = clock + 1
        /\ playbook' = batch_put(playbook, items)
        /\ Return(i, [r EXCEPT !.ts = ts, !.log = @ \o ItemOps("put_item", items)],
                  201, "Module created")
        /\ UNCHANGED <<env, blog, bucket>>

\* The credentials of requests that run side by side.
RaceCredentials == {AdminJwt, NoCredential}

\* Two create requests side by side.
NextCreateRace ==
    \/ \E i \in Requests, cred \in RaceCredentials, post \in PostCreates :
           create_post_get_item(i, cred, post)
    \/ \E i \in Requests : create_post_put_item(i)
    \/ \E i \in Requests, cred \in RaceCredentials, module \in SmallModuleCreates :
           create_module_get_item(i, cred, module)
    \/ \E i \in Requests : create_module_batch_writer(i)

SpecCreateRace == Init /\ [][NextCreateRace]_vars

\* The request in slot i has returned from the route body of route for slug.
Returned(i, route, slug) ==
    /\ At(i, route, "done")
    /\ inflight[i].slug = slug
    /\ inflight[i].status \in {200, 201, 400, 404, 409}

\* C22: of two create_post requests, or two create_module requests, for the
\* same slug that have both returned, whatever the order of their table calls,
\* at most one returned 201, the other returned 409, and the documents stored
\* under the slug are those the request that returned 201 wrote.
C22_OneCreateWins ==
    \A i \in Requests : \A j \in Requests \ {i} :
        /\ \A slug \in BlogSlugs :
               Returned(i, "create_post", slug) /\ Returned(j, "create_post", slug)
               /\ inflight[i].status = 201
               => /\ inflight[j].status = 409
                  /\ get_item(blog, blog_pk(slug), "METADATA")
                         = PostItem(inflight[i].body, inflight[i].ts)
        /\ \A slug \in ModuleSlugs :
               Returned(i, "create_module", slug) /\ Returned(j, "create_module", slug)
               /\ inflight[i].status = 201
               => /\ inflight[j].status = 409
                  /\ _all_module_items(playbook, slug)
                         = ModuleItems(inflight[i].body, inflight[i].ts)

\* C23: an update_module that answered 200 issued its table calls in the order
\* module-level update, then every upsert, then every delete; a problem id it
\* names both for upsert and for delete is not stored afterwards, and with an
\* upsert of one id and a delete of another the stored ids are those stored
\* before plus the upserted one minus the deleted one.
C23_UpdateStepsInOrder ==
    [][ (resp'.route = "update_module" /\ resp'.status = 200) =>
            LET slug   == resp'.slug
                U      == UpsertSKs(resp')
                D      == DeleteSKs(resp')
                before == ProblemSKs(playbook, slug)
                after  == ProblemSKs(playbook', slug)
            IN  /\ \A i \in 1..Len(oplog') : \A j \in 1..Len(oplog') :
                       /\ oplog'[i][1] = "update_item" /\ oplog'[j][1] = "put_item"
                              => i < j
                       /\ oplog'[i][1] = "put_item"
                          /\ oplog'[j][1] \in {"delete_item", "delete_objects"}
                              => i < j
                       /\ oplog'[i][1] = "put_item" /\ oplog'[j][1] = "get_item"
                          /\ oplog'[j][4] \in D \ U
                              => i < j
                /\ (U \cap D) \cap after = {}
                /\ (U \cap D = {}) => after = (before \cup U) \ D ]_vars

C23_Witness ==
    /\ resp.route = "update_module" /\ resp.status = 200
    /\ resp.payload.upsert_problems = Some(<<Problem("p1", 2)>>)
    /\ resp.payload.delete_problem_ids = Some(<<"p1">>)
    /\ Logged(oplog, "put_item", "playbook", playbook_pk("m1"), "PROBLEM#p1")
    /\ Logged(oplog, "delete_item", "playbook", playbook_pk("m1"), "PROBLEM#p1")
    /\ ProblemSKs(playbook, "m1") = {}

ProblemRequired ==
    {"title", "leetcodeUrl", "difficulty", "status", "pseudocode", "media"}

ProblemOptional == {"tags", "lastSolved", "nextReview"}

\* C24: after an update_module that answered 200, the document of every
\* upserted problem the request does not also delete holds exactly PK, SK,
\* collection, createdAt, updatedAt and the fields of the new payload with
\* the payload's values: an optional field the payload leaves out and a media
\* entry it does not list are absent; a request that deletes no problem
\* removes no blob.
C24_UpsertReplacesDocument ==
    [][ (resp'.route = "update_module" /\ resp'.status = 200) =>
            /\ \A p \in SeqSet(UpsertsOf(resp')) :
                  _problem_sk(p.id) \notin DeleteSKs(resp') =>
                      LET doc == get_item(playbook', playbook_pk(resp'.slug),
                                          _problem_sk(p.id))
                          opt == {f \in ProblemOptional : p[f] # None}
                      IN  /\ doc # NoItem
                          /\ DOMAIN doc = {"PK", "SK", "collection", "createdAt",
                                           "updatedAt"}
                                          \cup ProblemRequired \cup opt
                          /\ \A f \in ProblemRequired : doc[f] = p[f]
                          /\ \A f \in opt : doc[f] = p[f][1]
                          /\ doc.collection = "PLAYBOOK"
            /\ DeleteIdsOf(resp') = <<>> => bucket' = bucket ]_vars

C24_Witness ==
    LET p1 == get_item(playbook, playbook_pk("m1"), "PROBLEM#p1")
        p2 == get_item(playbook, playbook_pk("m1"), "PROBLEM#p2")
    IN  /\ resp.route = "update_module" /\ resp.status = 200
        /\ resp.payload.upsert_problems = Some(<<Problem("p1", 2)>>)
        /\ resp.payload.delete_problem_ids = None
        /\ p1 # NoItem /\ p2 # NoItem
        /\ p1.createdAt = 0 /\ p1.updatedAt = 2 /\ "tags" \notin DOMAIN p1
        /\ p2.createdAt = 0 /\ p2.updatedAt = 1 /\ p2.media = <<>>
        /\ "k2" \in bucket

----------------------------------------------------------------------------
(* Requests that fail part-way: the process stops, or a backend call       *)
(* raises, after some of the handler's writes took effect.                 *)

\* BatchWriteItem is no transaction: the puts whose index is in applied reach
\* the table, the others do not.
RECURSIVE batch_put_some(_, _, _, _)
batch_put_some(table, items, applied, i) ==
    IF i > Len(items) THEN table
    ELSE batch_put_some(IF i \in applied THEN put_item(table, items[i]) ELSE table,
                        items, applied, i + 1)

\* create_module whose batch fails after the puts in applied: the exception
\* leaves the route and the framework answers 500.
create_module_interrupted(cred, module, applied) ==
    LET auth     == verify_admin_token(cred)
        pk       == playbook_pk(module.slug)
        existing == get_item(playbook, pk, "METADATA")
        ts       == now_iso
        items    == ModuleItems(module, ts)
    IN  /\ auth.status = 200
        /\ existing = NoItem
        /\ applied \subseteq 1..Len(items)
        /\ clock < MaxClock
        /\ clock' = clock + 1
        /\ playbook' = batch_put_some(playbook, items, applied, 1)
        /\ oplog' = << Op("get_item", "playbook", pk, "METADATA") >>
                    \o ItemOps("put_item", items)
        /\ Answer("create_module", module.slug, cred, module, auth, 500,
                  "Internal Server Error")
        /\ UNCHANGED <<inflight, env, blog, bucket>>

NextPartialCreate ==
    \/ \E cred \in Credentials, module \in ModuleCreates : create_module(cred, module)
    \/ \E cred \in Credentials, module \in ModuleCreates :
           \E applied \in SUBSET (1..(1 + Len(module.problems))) :
               create_module_interrupted(cred, module, applied)
    \/ \E cred \in Credentials, slug \in ModuleSlugs : delete_module(cred, slug)

SpecPartialCreate == Init /\ [][NextPartialCreate]_vars

\* A create_module with initial problems failed part-way and the next request
\* is the same create_module again, authorized and run to its return.
RerunOfPartialCreate ==
    /\ resp.route = "create_module" /\ resp.status = 500 /\ resp.payload # None
    /\ resp.payload.problems # <<>>
    /\ PartitionSKs(playbook, resp.slug) # {}
    /\ resp'.route = "create_module" /\ Authorized(resp')
    /\ resp'.payload = resp.payload
    /\ resp'.status # 500

\* C25 as stated: after a create_module with initial problems of which some
\* writes took effect, the same request sent again answers 409.
C25_AsStated ==
    [][ RerunOfPartialCreate => resp'.status = 409 ]_vars

\* C25: after a create_module with initial problems of which some writes took
\* effect, the same request sent again and run to its return answers 409 and
\* writes nothing when the METADATA write was among them; when it was not,
\* it answers 201 and the module and all its initial problems are stored.
C25_RerunConflictsOnStoredParent ==
    [][ RerunOfPartialCreate =>
            IF ModuleExists(playbook, resp.slug)
            THEN resp'.status = 409 /\ playbook' = playbook
            ELSE /\ resp'.status = 201
                 /\ \A item \in SeqSet(ModuleItems(resp.payload, clock)) :
                        get_item(playbook', item.PK, item.SK) = item ]_vars

C25_Witness ==
    /\ resp.route = "create_module" /\ resp.status = 409
    /\ resp.payload.problems = <<Problem("p1", 1), Problem("p2", 2)>>
    /\ PartitionSKs(playbook, "m1") = {"METADATA", "PROBLEM#p2"}
    /\ clock = 1

\* The deletes whose index is in applied reach the table, the others do not.
RECURSIVE batch_delete_some(_, _, _, _)
batch_delete_some(table, items, applied, i) ==
    IF i > Len(items) THEN table
    ELSE batch_delete_some(IF i \in applied
                           THEN delete_item(table, items[i].PK, items[i].SK)
                           ELSE table,
                           items, applied, i + 1)

\* delete_post that stops after a prefix of its backend calls: the lookup,
\* then the bulk delete of the blobs, then the delete of the document.
delete_post_interrupted(cred, slug, blobs_done, doc_done) ==
    LET auth    == verify_admin_token(cred)
        pk      == blog_pk(slug)
        item    == get_item(blog, pk, "METADATA")
        s3_keys == media_s3_keys(item_media(item))
    IN  /\ auth.status = 200
        /\ item # NoItem
        /\ doc_done => blobs_done
        /\ bucket' = IF blobs_done THEN delete_s3_objects(bucket, s3_keys) ELSE bucket
        /\ blog' = IF doc_done THEN delete_item(blog, pk, "METADATA") ELSE blog
        /\ oplog' = << Op("get_item", "blog", pk, "METADATA") >>
                    \o (IF blobs_done THEN delete_s3_objects_log(s3_keys) ELSE <<>>)
                    \o (IF doc_done THEN << Op("delete_item", "blog", pk, "METADATA") >>
                        ELSE <<>>)
        /\ Answer("delete_post", slug, cred, None, auth, 500, "Internal Server Error")
        /\ UNCHANGED <<inflight, env, playbook, clock>>

\* delete_module that stops after a prefix of its backend calls: the query,
\* then the bulk delete of the blobs, then the batch of document deletes, of
\* which those in applied took effect.
delete_module_interrupted(cred, slug, blobs_done, applied) ==
    LET auth    == verify_admin_token(cred)
        pk      == playbook_pk(slug)
        items   == _all_module_items(playbook, slug)
        s3_keys == _collect_s3_keys(items)
    IN  /\ auth.status = 200
        /\ items # <<>>
        /\ applied \subseteq 1..Len(items)
        /\ applied # {} => blobs_done
        /\ bucket' = IF blobs_done THEN delete_s3_objects(bucket, s3_keys) ELSE bucket
        /\ playbook' = batch_delete_some(playbook, items, applied, 1)
        /\ oplog' = << Op("query", "playbook", pk, "") >>
                    \o (IF blobs_done THEN delete_s3_objects_log(s3_keys) ELSE <<>>)
                    \o (IF applied # {} THEN ItemOps("delete_item", items) ELSE <<>>)
        /\ Answer("delete_module", slug, cred, None, auth, 500, "Internal Server Error")
        /\ UNCHANGED <<inflight, env, blog, clock>>

NextPartialDelete ==
    \/ \E cred \in Credentials, post \in PostCreates : create_post(cred, post)
    \/ \E cred \in Credentials, slug \in BlogSlugs : delete_post(cred, slug)
    \/ \E cred \in Credentials, slug \in BlogSlugs, blobs_done \in BOOLEAN,
          doc_done \in BOOLEAN :
           delete_post_interrupted(cred, slug, blobs_done, doc_done)
    \/ \E cred \in Credentials, module \in ModuleCreates : create_module(cred, module)
    \/ \E cred \in Credentials, slug \in ModuleSlugs : delete_module(cred, slug)
    \/ \E cred \in Credentials, slug \in ModuleSlugs, blobs_done \in BOOLEAN :
           \E applied \in SUBSET (1..Len(SortKeySeq)) :
               delete_module_interrupted(cred, slug, blobs_done, applied)
    \/ \E k \in S3Keys : put_object(k)

SpecPartialDelete == Init /\ [][NextPartialDelete]_vars

\* The documents stored under the slug of response r, in the table of its route.
DocsOf(r, b, p) ==
    IF r.route = "delete_post"
    THEN {b[k] : k \in {d \in DOMAIN b : d[1] = blog_pk(r.slug)}}
    ELSE {p[k] : k \in {d \in DOMAIN p : d[1] = playbook_pk(r.slug)}}

\* C26: a delete_post or delete_module that stopped part-way removed the blobs
\* of every document it removed; the same delete sent again, authorized and
\* run to its return, answers 200 while a document of the slug remains and
\* then leaves no document of the slug and no blob these documents list, and
\* answers 404 and changes nothing once none remains.
C26_DeleteAgainFinishes ==
    [][ /\ (resp'.route \in {"delete_post", "delete_module"} /\ resp'.status = 500
            /\ Authorized(resp'))
            => \A doc \in DocsOf(resp', blog, playbook) \ DocsOf(resp', blog', playbook') :
                   StoredS3Keys(doc) \cap bucket' = {}
        /\ (resp.route \in {"delete_post", "delete_module"} /\ resp.status = 500
            /\ Authorized(resp)
            /\ resp'.route = resp.route /\ resp'.slug = resp.slug
            /\ Authorized(resp') /\ resp'.status # 500)
            => IF DocsOf(resp, blog, playbook) # {}
               THEN /\ resp'.status = 200
                    /\ DocsOf(resp, blog', playbook') = {}
                    /\ \A doc \in DocsOf(resp, blog, playbook) :
                           StoredS3Keys(doc) \cap bucket' = {}
               ELSE /\ resp'.status = 404
                    /\ blog' = blog /\ playbook' = playbook /\ bucket' = bucket ]_vars

C26_Witness ==
    /\ resp.route = "delete_module" /\ resp.status = 200
    /\ Logged(oplog, "delete_item", "playbook", playbook_pk("m1"), "PROBLEM#p2")
    /\ ~Logged(oplog, "delete_item", "playbook", playbook_pk("m1"), "METADATA")
    /\ PartitionSKs(playbook, "m1") = {}

----------------------------------------------------------------------------
(* update and delete handlers, split at their backend calls                *)

\* update_post up to the empty-body test.
update_post_get_item(i, cred, slug, update) ==
    LET pk   == blog_pk(slug)
        item == get_item(blog, pk, "METADATA")
        data == model_dump_exclude_none(update, PostUpdateFields)
        r    == Started("update_post", slug, cred, update, "update_item",
                        << Op("get_item", "blog", pk, "METADATA") >>)
    IN  /\ inflight[i].pc = "idle"
        /\ IF verify_admin_token(cred).status # 200
           THEN Refused(i, "update_post", slug, cred)
           ELSE IF item = NoItem THEN Return(i, r, 404, "Post not found")
           ELSE IF data = <<>> THEN Return(i, r, 400, "No fields to update")
           ELSE Continue(i, r)
        /\ UNCHANGED <<env, blog, playbook, bucket, clock>>

\* update_post from the time stamp to the return.
update_post_update_item(i) ==
    LET r    == inflight[i]
        pk   == blog_pk(r.slug)
        data == model_dump_exclude_none(r.body, PostUpdateFields)
        ts   == now_iso
        ue   == build_update_expression(serialize_media(data) \o << <<"updatedAt", ts>> >>)
    IN  /\ At(i, "update_post", "update_item")
        /\ clock < MaxClock
        /\ clock' = clock + 1
        /\ blog' = update_item(blog, pk, "METADATA", ue.expr, ue.names, ue.values)
        /\ Return(i, [r EXCEPT !.ts = ts,
                               !.log = @ \o << Op("update_item", "blog", pk, "METADATA") >>],
                  200, "Post updated")
        /\ UNCHANGED <<env, playbook, bucket>>

\* delete_post up to the lookup.
delete_post_get_item(i, cred, slug) ==
    LET pk   == blog_pk(slug)
        item == get_item(blog, pk, "METADATA")
        r    == Started("delete_post", slug, cred, None, "delete_s3_objects",
                        << Op("get_item", "blog", pk, "METADATA") >>)
    IN  /\ inflight[i].pc = "idle"
        /\ IF verify_admin_token(cred).status # 200
           THEN Refused(i, "delete_post", slug, cred)
           ELSE IF item = NoItem THEN Return(i, r, 404, "Post not found")
           ELSE Continue(i, [r EXCEPT !.found = Some(item)])
        /\ UNCHANGED <<env, blog, playbook, bucket, clock>>

\* delete_post: the bulk delete of the post's blobs.
delete_post_delete_s3_objects(i) ==
    LET r       == inflight[i]
        s3_keys == media_s3_keys(item_media(r.found[1]))
    IN  /\ At(i, "delete_post", "delete_s3_objects")
        /\ bucket' = delete_s3_objects(bucket, s3_keys)
        /\ Continue(i, [r EXCEPT !.pc = "delete_item",
                                 !.log = @ \o delete_s3_objects_log(s3_keys)])
        /\ UNCHANGED <<env, blog, playbook, clock>>

\* delete_post from the document delete to the return.
delete_post_delete_item(i) ==
    LET r  == inflight[i]
        pk == blog_pk(r.slug)
    IN  /\ At(i, "delete_post", "delete_item")
        /\ blog' = delete_item(blog, pk, "METADATA")
        /\ Return(i, [r EXCEPT !.log = @ \o << Op("delete_item", "blog", pk, "METADATA") >>],
                  200, "Post deleted")
        /\ UNCHANGED <<env, playbook, bucket, clock>>

\* update.upsert_problems and update.delete_problem_ids, empty when None.
RequestUpserts(update) ==
    IF update.upsert_problems = None THEN <<>> ELSE update.upsert_problems[1]

RequestDeleteIds(update) ==
    IF update.delete_problem_ids = None THEN <<>> ELSE update.delete_problem_ids[1]

\* Where update_module goes on after step 1 (from = 2) or step 2 (from = 3):
\* the position of its next table call, "return" when none is left.
NextStep(update, from) ==
    IF from <= 2 /\ RequestUpserts(update) # <<>> THEN "upsert_get_item"
    ELSE IF RequestDeleteIds(update) # <<>> THEN "delete_get_item"
    ELSE "return"

\* The request in slot i goes on to position pc, or returns 200 when update_module
\* has no call left.
GoOn(i, r, pc) ==
    IF pc = "return" THEN Return(i, r, 200, "Module updated")
    ELSE Continue(i, [r EXCEPT !.pc = pc, !.k = 1])

\* update_module up to the time stamp.
update_module_get_item(i, cred, slug, update) ==
    LET pk     == playbook_pk(slug)
        module == get_item(playbook, pk, "METADATA")
        ts     == now_iso
        module_fields == model_dump_exclude_none(update, ModuleUpdateFields)
        r      == Started("update_module", slug, cred, update, "get_item",
                          << Op("get_item", "playbook", pk, "METADATA") >>)
    IN  /\ inflight[i].pc = "idle"
        /\ IF verify_admin_token(cred).status # 200
           THEN /\ Refused(i, "update_module", slug, cred)
                /\ UNCHANGED clock
           ELSE IF module = NoItem
           THEN /\ Return(i, r, 404, "Module not found")
                /\ UNCHANGED clock
           ELSE /\ clock < MaxClock
                /\ clock' = clock + 1
                /\ GoOn(i, [r EXCEPT !.ts = ts],
                        IF module_fields # <<>> THEN "update_item"
                        ELSE NextStep(update, 2))
        /\ UNCHANGED <<env, blog, playbook, bucket>>

\* Step 1 of update_module: the module-level fields.
update_module_update_item(i) ==
    LET r  == inflight[i]
        pk == playbook_pk(r.slug)
        module_fields == model_dump_exclude_none(r.body, ModuleUpdateFields)
        ue == build_update_expression(
                  serialize_media(module_fields) \o << <<"updatedAt", r.ts>> >>)
    IN  /\ At(i, "update_module", "update_item")
        /\ playbook' = update_item(playbook, pk, "METADATA", ue.expr, ue.names, ue.values)
        /\ GoOn(i, [r EXCEPT !.log = @ \o << Op("update_item", "playbook", pk,
                                                 "METADATA") >>],
                NextStep(r.body, 2))
        /\ UNCHANGED <<env, blog, bucket, clock>>

\* Step 2 of update_module: the lookup of the k-th problem; its item goes
\* into the batch.
update_module_upsert_get_item(i) ==
    LET r          == inflight[i]
        problem    == RequestUpserts(r.body)[r.k]
        pk         == playbook_pk(r.slug)
        existing   == get_item(playbook, pk, _problem_sk(problem.id))
        created_at == IF existing # NoItem THEN existing.createdAt ELSE r.ts
        item       == SetAttr(_problem_item(r.slug, problem, created_at), "updatedAt", r.ts)
        r1         == [r EXCEPT !.buf = @ \o <<item>>,
                                !.log = @ \o << Op("get_item", "playbook", pk,
                                                   _problem_sk(problem.id)) >>]
    IN  /\ At(i, "update_module", "upsert_get_item")
        /\ IF r.k < Len(RequestUpserts(r.body))
           THEN Continue(i, [r1 EXCEPT !.k = r.k + 1])
           ELSE Continue(i, [r1 EXCEPT !.pc = "batch_writer"])
        /\ UNCHANGED <<env, blog, playbook, bucket, clock>>

\* Step 2 of update_module: the batch is flushed when the with block is left.
update_module_batch_writer(i) ==
    LET r == inflight[i]
    IN  /\ At(i, "update_module", "batch_writer")
        /\ playbook' = batch_put(playbook, r.buf)
        /\ GoOn(i, [r EXCEPT !.log = @ \o ItemOps("put_item", r.buf)],
                NextStep(r.body, 3))
        /\ UNCHANGED <<env, blog, bucket, clock>>

\* After the k-th id of step 3: the next id, or the return.
NextDelete(i, r) ==
    IF r.k < Len(RequestDeleteIds(r.body))
    THEN Continue(i, [r EXCEPT !.pc = "delete_get_item", !.k = r.k + 1])
    ELSE Return(i, r, 200, "Module updated")

\* Step 3 of update_module: the lookup of the k-th id.
update_module_delete_get_item(i) ==
    LET r        == inflight[i]
        pk       == playbook_pk(r.slug)
        sk       == _problem_sk(RequestDeleteIds(r.body)[r.k])
        existing == get_item(playbook, pk, sk)
        r1       == [r EXCEPT !.log = @ \o << Op("get_item", "playbook", pk, sk) >>]
    IN  /\ At(i, "update_module", "delete_get_item")
        /\ IF existing # NoItem
           THEN Continue(i, [r1 EXCEPT !.pc = "delete_s3_objects",
                                       !.found = Some(existing)])
           ELSE NextDelete(i, r1)
        /\ UNCHANGED <<env, blog, playbook, bucket, clock>>

\* Step 3 of update_module: the bulk delete of the problem's blobs.
update_module_delete_s3_objects(i) ==
    LET r       == inflight[i]
        s3_keys == _collect_s3_keys(<<r.found[1]>>)
    IN  /\ At(i, "update_module", "delete_s3_objects")
        /\ bucket' = delete_s3_objects(bucket, s3_keys)
        /\ Continue(i, [r EXCEPT !.pc = "delete_item",
                                 !.log = @ \o delete_s3_objects_log(s3_keys)])
        /\ UNCHANGED <<env, blog, playbook, clock>>

\* Step 3 of update_module: the delete of the problem's document.
update_module_delete_item(i) ==
    LET r  == inflight[i]
        pk == playbook_pk(r.slug)
        sk == _problem_sk(RequestDeleteIds(r.body)[r.k])
    IN  /\ At(i, "update_module", "delete_item")
        /\ playbook' = delete_item(playbook, pk, sk)
        /\ NextDelete(i, [r EXCEPT !.log = @ \o << Op("delete_item", "playbook", pk, sk) >>])
        /\ UNCHANGED <<env, blog, bucket, clock>>

\* delete_module up to the query.
delete_module_query(i, cred, slug) ==
    LET pk    == playbook_pk(slug)
        items == _all_module_items(playbook, slug)
        r     == Started("delete_module", slug, cred, None, "delete_s3_objects",
                         << Op("query", "playbook", pk, "") >>)
    IN  /\ inflight[i].pc = "idle"
        /\ IF verify_admin_token(cred).status # 200
           THEN Refused(i, "delete_module", slug, cred)
           ELSE IF items = <<>> THEN Return(i, r, 404, "Module not found")
           ELSE Continue(i, [r EXCEPT !.buf = items])
        /\ UNCHANGED <<env, blog, playbook, bucket, clock>>

\* delete_module: the bulk delete of the blobs of the items found.
delete_module_delete_s3_objects(i) ==
    LET r       == inflight[i]
        s3_keys == _collect_s3_keys(r.buf)
    IN  /\ At(i, "delete_module", "delete_s3_objects")
        /\ bucket' = delete_s3_objects(bucket, s3_keys)
        /\ Continue(i, [r EXCEPT !.pc = "batch_writer",
                                 !.log = @ \o delete_s3_objects_log(s3_keys)])
        /\ UNCHANGED <<env, blog, playbook, clock>>

\* delete_module from the batch of document deletes to the return.
delete_module_batch_writer(i) ==
    LET r == inflight[i]
    IN  /\ At(i, "delete_module", "batch_writer")
        /\ playbook' = batch_delete(playbook, r.buf)
        /\ Return(i, [r EXCEPT !.log = @ \o ItemOps("delete_item", r.buf)],
                  200, "Module deleted")
        /\ UNCHANGED <<env, blog, bucket, clock>>

RacePostUpdates == {[NoPostUpdate EXCEPT !.title = Some("T2")]}

RaceModuleUpdates ==
    {[NoModuleUpdate EXCEPT !.title = Some("M2")],
     [NoModuleUpdate EXCEPT !.upsert_problems = Some(<<Problem("p2", 2)>>)],
     [NoModuleUpdate EXCEPT !.upsert_problems = Some(<<Problem("p1", 2)>>),
                            !.delete_problem_ids = Some(<<"p2", "p1">>)]}

\* Updates and deletes side by side, on documents created before.
NextUpdateDeleteRace ==
    \/ \E post \in PostCreates : create_post(AdminJwt, post)
    \/ \E module \in SmallModuleCreates : create_module(AdminJwt, module)
    \/ \E i \in Requests, cred \in RaceCredentials, slug \in BlogSlugs,
          update \in RacePostUpdates :
           update_post_get_item(i, cred, slug, update)
    \/ \E i \in Requests : update_post_update_item(i)
    \/ \E i \in Requests, cred \in RaceCredentials, slug \in BlogSlugs :
           delete_post_get_item(i, cred, slug)
    \/ \E i \in Requests : delete_post_delete_s3_objects(i)
    \/ \E i \in Requests : delete_post_delete_item(i)
    \/ \E i \in Requests, cred \in RaceCredentials, slug \in ModuleSlugs,
          update \in RaceModuleUpdates :
           update_module_get_item(i, cred, slug, update)
    \/ \E i \in Requests : update_module_update_item(i)
    \/ \E i \in Requests : update_module_upsert_get_item(i)
    \/ \E i \in Requests : update_module_batch_writer(i)
    \/ \E i \in Requests : update_module_delete_get_item(i)
    \/ \E i \in Requests : update_module_delete_s3_objects(i)
    \/ \E i \in Requests : update_module_delete_item(i)
    \/ \E i \in Requests, cred \in RaceCredentials, slug \in ModuleSlugs :
           delete_module_query(i, cred, slug)
    \/ \E i \in Requests : delete_module_delete_s3_objects(i)
    \/ \E i \in Requests : delete_module_batch_writer(i)

SpecUpdateDeleteRace == Init /\ [][NextUpdateDeleteRace]_vars

\* Every request that was received has returned.
AllReturned == \A i \in Requests : inflight[i].pc \in {"idle", "done"}

\* C27: once the update_module and delete_module requests that ran side by
\* side on a slug have all returned, every stored problem document has a
\* METADATA document in its partition.
C27_NoProblemWithoutModule ==
    AllReturned =>
        \A k \in DOMAIN playbook :
            k[2] # "METADATA" => <<k[1], "METADATA">> \in DOMAIN playbook

PostAttributes ==
    {"PK", "SK", "title", "date", "excerpt", "tags", "content", "media",
     "createdAt", "updatedAt"}

ModuleAttributes ==
    {"PK", "SK", "collection", "title", "description", "content", "order", "media",
     "createdAt", "updatedAt"}

\* C28: whatever the order of the table calls of updates and deletes that run
\* side by side on a slug, every stored post document and every stored module
\* METADATA document holds all the attributes written at creation.
C28_UpdateCreatesNoDocument ==
    /\ \A k \in DOMAIN blog : PostAttributes \subseteq DOMAIN blog[k]
    /\ \A k \in DOMAIN playbook :
           k[2] = "METADATA" => ModuleAttributes \subseteq DOMAIN playbook[k]

----------------------------------------------------------------------------
(* The key builder over slugs, file names and problem ids of any shape     *)

\* UploadUrlRequest declares plain str fields: a slug or a file name may
\* hold a "/".
KeyRequests ==
    {[filename |-> f, content_type |-> ct, entity_type |-> et,
      entity_slug |-> sl, problem_id |-> p] :
        f \in {"a.png", "b.svg", "problems/p1/a.png", "x/a.png"},
        ct \in {"image/png", "image/svg+xml"},
        et \in {"blog", "playbook"},
        sl \in {"s1", "m1", "m1/x"},
        p \in {None, Some(""), Some("p1")}}

NextUploadKeys ==
    \E cred \in Credentials, req \in KeyRequests : get_upload_url(cred, req)

SpecUploadKeys == Init /\ [][NextUploadKeys]_vars

HasSlash(s) == \E i \in 1..Len(s) : SubSeq(s, i, i) = "/"

KeyIssued(r) == r.route = "get_upload_url" /\ r.status = 200

\* The tuple a key is built from.
KeyTuple(q) == <<q.entity_type, q.entity_slug, q.problem_id, q.filename>>

\* The entity or problem a request names: the problem id counts for playbook
\* only, and an empty one counts as none.
KeyTarget(q) ==
    <<q.entity_type, q.entity_slug,
      IF q.entity_type = "playbook" /\ q.problem_id # Some("") THEN q.problem_id
      ELSE None,
      q.filename>>

SlashFree(q) ==
    /\ ~HasSlash(q.entity_slug) /\ ~HasSlash(q.filename)
    /\ q.problem_id # None => ~HasSlash(q.problem_id[1])

\* C29 as stated: two upload requests with different tuples (entity type,
\* slug, problem id or none, filename) never get the same object key.
C29_AsStated ==
    [][ (KeyIssued(resp) /\ KeyIssued(resp')
         /\ KeyTuple(resp.payload) # KeyTuple(resp'.payload))
        => resp.body[1].s3Key # resp'.body[1].s3Key ]_vars

\* C29: two upload requests whose slug, problem id and filename hold no "/"
\* and that name different targets (the problem id ignored for blog, an empty
\* one counted as none) get different object keys; a key issued for a blog
\* entity and a key issued for a playbook entity are different whatever the
\* inputs.
C29_KeysOfSlashFreeTargetsDiffer ==
    [][ (KeyIssued(resp) /\ KeyIssued(resp')) =>
            /\ (SlashFree(resp.payload) /\ SlashFree(resp'.payload)
                /\ KeyTarget(resp.payload) # KeyTarget(resp'.payload))
                   => resp.body[1].s3Key # resp'.body[1].s3Key
            /\ resp.payload.entity_type # resp'.payload.entity_type
                   => resp.body[1].s3Key # resp'.body[1].s3Key ]_vars

C29_Witness ==
    /\ KeyIssued(resp)
    /\ SlashFree(resp.payload)
    /\ KeyTarget(resp.payload) = <<"playbook", "m1", Some("p1"), "a.png">>
    /\ resp.body[1].s3Key = "images/playbook/m1/problems/p1/a.png"

\* The credential of response r is a token that jwt.decode accepts: signed
\* with the configured secret by HS256 and not expired.
DecodedToken(r) ==
    /\ SignedTokenCase(r) /\ r.cred.scheme = "Bearer"
    /\ SigningSecret # "" /\ ~BadToken(r.cred) /\ ~r.cred.jwt[1].expired

\* C30: with an empty configured admin email the verifier accepts no
\* credential as a signed token, and a token that is validly signed and not
\* expired is answered 403 whether its email claim is absent, empty or any
\* string.
C30_EmptyAdminEmailFailsClosed ==
    (AdminEmail = "" /\ SignedTokenCase(resp)) =>
        /\ resp.status # 200 /\ ~Authorized(resp)
        /\ DecodedToken(resp) => resp.status = 403

C30_Witness ==
    /\ AdminEmail = "" /\ DecodedToken(resp)
    /\ resp.cred.jwt[1].email = Some("")
    /\ resp.status = 403

====
